---------------------------- MODULE Spec2Model ----------------------------
(***************************************************************************)
(* sqlx4k: the native bridge that exposes asynchronous SQL access through  *)
(* a flat C interface.  The model follows the canonical variant,           *)
(* src/sqlx4k-postgres/src/rust/src/lib.rs (the MySQL and SQLite variants  *)
(* have the same request code), and the earliest, slot-table variant,      *)
(* src/rust_lib/src/lib.rs, where a claim names it.                        *)
(*                                                                         *)
(* The database driver (sqlx) is an external collaborator: every driver    *)
(* call is a nondeterministic choice among the outcomes the driver can     *)
(* report (Ok, or one of its error categories).  The caller follows the    *)
(* handle protocol of the interface: one operation at a time on a          *)
(* transaction or pooled connection, each with the handle the caller       *)
(* currently holds for it.                                                 *)
(***************************************************************************)
EXTENDS Integers, Sequences, FiniteSets, TLC

\* ------------------------------------------------------------------ bounds
\* Number of request-shaped calls a caller makes in one run when it keeps
\* requests in flight concurrently.
MaxReq == 3
\* Number of request-shaped calls a sequential caller makes in one run (one
\* that awaits each callback before its next call).
MaxSeq == 4
\* max_connections passed to initialization.
MaxConn == 2
\* Largest rows_affected count the driver reports in the model.
MaxAffected == 1

Req == 1 .. MaxSeq
Conns == 1 .. MaxConn
\* Slot-table variant: the transaction ids, 0 ..= max_connections - 1.
Ids == 0 .. MaxConn - 1
\* Heap addresses for boxed transactions and pooled connections: every
\* connection can be behind one pooled-connection box and one transaction box.
MaxAddr == 2 * MaxConn
Addr == 1 .. MaxAddr
\* null_mut()
NULL == 0

\* ------------------------------------------------------- program constants
OK == -1
ERROR_DATABASE == 0
ERROR_POOL_TIMED_OUT == 1
ERROR_POOL_CLOSED == 2
ERROR_WORKER_CRASHED == 3

\* A nullable C pointer to an owned value: <<>> is null, <<v>> points to v.
Null == <<>>
Ptr(v) == <<v>>
IsNull(p) == p = <<>>

\* ------------------------------------------------------------ driver side
\* sqlx::Error categories.  "Other" stands for the categories the wildcard
\* arm of the mapper catches.
Recoverable == {"Database", "PoolTimedOut", "PoolClosed", "WorkerCrashed"}
Fatal ==
    {"Configuration", "Io", "Tls", "Protocol", "RowNotFound", "TypeNotFound",
     "ColumnIndexOutOfBounds", "ColumnNotFound", "ColumnDecode", "Decode",
     "AnyDriverError", "Migrate", "Other"}
ErrorKind == Recoverable \cup Fatal

\* A driver error; a Database error may carry an engine error code.
NoCode == ""
Err(kind, code) == [kind |-> kind, code |-> code]
NoErr == [kind |-> "None", code |-> NoCode]
DatabaseErrors == {Err("Database", "23505"), Err("Database", NoCode)}
FatalErrors == {Err(k, NoCode) : k \in Fatal}
\* Errors a statement sent over a live connection, or an acquire from the
\* pool, can end with: of the fatal categories the two a broken connection
\* produces (the connect of the initialization draws from all of them).
RequestFatalErrors == {Err("Io", NoCode), Err("Protocol", NoCode)}
StatementErrors ==
    DatabaseErrors \cup {Err("WorkerCrashed", NoCode)} \cup RequestFatalErrors

\* Rows a fetch can return in the request model: each row a sequence of
\* Option<&str> column values (Null is SQL NULL).
NoRows == <<>>
OneRow == << <<Ptr("1"), Null>> >>
FetchRows == {NoRows, OneRow}

\* ---------------------------------------------------------------- results
Sqlx4kPostgresResult_default ==
    [error |-> OK, error_message |-> Null, rows_affected |-> 0,
     cn |-> NULL, tx |-> NULL, rt |-> NULL,
     schema |-> Null, size |-> 0, rows |-> Null]

\* A Rust function either returns a value or panics.
Return(v) == [panic |-> FALSE, val |-> v]
Panics == [panic |-> TRUE, val |-> Sqlx4kPostgresResult_default]

\* ErrorResult with the message left null.
ErrorResultNoMessage(code, message) ==
    [Sqlx4kPostgresResult_default EXCEPT !.error = code]

ErrorResult(code, message) ==
    [Sqlx4kPostgresResult_default EXCEPT
        !.error = code, !.error_message = Ptr(message)]

\* The mapper with a wildcard arm that returns a DATABASE result instead of
\* panicking.
error_result_of_with_default(err) ==
    CASE err.kind = "PoolTimedOut" ->
            Return(ErrorResult(ERROR_POOL_TIMED_OUT, <<"PoolTimedOut">>))
      [] err.kind = "PoolClosed" ->
            Return(ErrorResult(ERROR_POOL_CLOSED,
                               <<"The connection pool is already closed">>))
      [] err.kind = "WorkerCrashed" ->
            Return(ErrorResult(ERROR_WORKER_CRASHED, <<"WorkerCrashed">>))
      [] OTHER -> Return(ErrorResult(ERROR_DATABASE, <<"db">>))

sqlx4k_postgres_error_result_of(err) ==
    CASE err.kind = "Database" ->
            IF err.code # NoCode
            THEN Return(ErrorResult(ERROR_DATABASE, <<"[", err.code, "] ", "db">>))
            ELSE Return(ErrorResult(ERROR_DATABASE, <<"db">>))
      [] err.kind = "PoolTimedOut" ->
            Return(ErrorResult(ERROR_POOL_TIMED_OUT, <<"PoolTimedOut">>))
      [] err.kind = "PoolClosed" ->
            Return(ErrorResult(ERROR_POOL_CLOSED,
                               <<"The connection pool is already closed">>))
      [] err.kind = "WorkerCrashed" ->
            Return(ErrorResult(ERROR_WORKER_CRASHED, <<"WorkerCrashed">>))
      [] OTHER -> Panics

\* A column that numbers the ordinals from one.
RowColumnFromOne(row, i) == [ordinal |-> i, value |-> row[i]]

\* Column i (1-based position, ordinal i - 1) of a row.
RowColumn(row, i) == [ordinal |-> i - 1, value |-> row[i]]

sqlx4k_postgresql_row_of(row) ==
    IF Len(row) = 0
    THEN [size |-> 0, columns |-> Null]
    ELSE [size |-> Len(row),
          columns |-> Ptr([i \in 1 .. Len(row) |-> RowColumn(row, i)])]

SchemaColumn(row, i) == [ordinal |-> i - 1, name |-> Ptr("c"), kind |-> Ptr("TEXT")]

sqlx4k_postgresql_schema_of(row) ==
    IF Len(row) = 0
    THEN [size |-> 0, columns |-> Null]
    ELSE [size |-> Len(row),
          columns |-> Ptr([i \in 1 .. Len(row) |-> SchemaColumn(row, i)])]

\* result: Result<Vec<PgRow>, sqlx::Error>, with fields ok, rows, err.

sqlx4k_postgresql_result_of(result) ==
    IF result.ok
    THEN Return([Sqlx4kPostgresResult_default EXCEPT
            !.schema = Ptr(IF Len(result.rows) > 0
                           THEN sqlx4k_postgresql_schema_of(result.rows[1])
                           ELSE [size |-> 0, columns |-> Null]),
            !.size = Len(result.rows),
            !.rows = Ptr([i \in 1 .. Len(result.rows) |->
                            sqlx4k_postgresql_row_of(result.rows[i])])])
    ELSE sqlx4k_postgres_error_result_of(result.err)


\* ------------------------------------------------------------------ state
VARIABLES
    runtime,    \* RUNTIME: TRUE once the background scheduler is installed
    poolState,  \* "none" before initialization, then "open", then "closed"
    callerPc,   \* "ready", or "in_of" while initialization blocks the caller
    conn,       \* per pool connection: "idle", "out" (checked out), "closed"
    req,        \* per request: its spawned task
    nextReq,    \* the next request the caller submits
    cbCount,    \* per request: how often its callback was invoked
    last,       \* the most recent result produced (or the panic in its place)
    heap,       \* per address: the boxed object living there
    tx,         \* per transaction (named by its tx_begin request)
    cn,         \* per pooled connection (named by its cn_acquire request)
    callerTx,   \* per transaction: the handle the caller holds for it
    callerCn,   \* per pooled connection: the handle the caller holds for it
    dbApplied,  \* per transaction: how many of its statements are visible
    crashed,    \* the process has terminated
    tx_id,      \* slot-table variant: the free list of transaction ids
    slots,      \* slot-table variant: per id, the transaction stored there
    given,      \* translator: the driver result it is handed
    built,      \* translator: the result it produced
    released,   \* translator: per allocation, how often it was released
    freeing,    \* translator: where the life of the result stands
    listener,   \* the task of the listen call: its position and connection
    inbound,    \* the notifications received on the listener's connection
    published,  \* the notifications other sessions have published
    notified,   \* the notifications handed to the notify callback
    nullDeref,  \* a task has dereferenced a null handle
    registry,   \* the schedulers created and the pools behind the handles given out
    sql,        \* per request: the caller's SQL buffer, the task's text, the text run
    inits       \* RUNTIME and the threads that are inside initialization

vars ==
    <<runtime, poolState, callerPc, conn, req, nextReq, cbCount, last, heap,
      tx, cn, callerTx, callerCn, dbApplied, crashed, tx_id, slots,
      given, built, released, freeing, listener, inbound, published, notified,
      nullDeref, registry, sql, inits>>

\* What no request-shaped operation touches: the translator's bookkeeping
\* and the listener.
Beside == <<registry, sql, inits>>
Aside ==
    <<given, built, released, freeing, listener, inbound, published, notified,
      Beside>>

Ops ==
    {"query", "fetch_all", "tx_begin", "tx_commit", "tx_rollback", "tx_query",
     "tx_fetch_all", "cn_acquire", "cn_release", "cn_query", "cn_fetch_all",
     "cn_tx_begin", "close"}

\* The correlation token the caller passes with request r.
TokenOf(r) == r

NewReq ==
    [st |-> "new", op |-> "none", token |-> 0, arg |-> NULL, target |-> 0,
     conn |-> 0, held |-> 0]
DoneReq == [NewReq EXCEPT !.st = "done"]

FreeCell == [kind |-> "free", id |-> 0]
NoTx ==
    [state |-> "NotStarted", conn |-> 0, viaCn |-> 0, issued |-> 0,
     failed |-> FALSE, closedBy |-> "none", closedOk |-> FALSE]
NoCn == [state |-> "none", conn |-> 0]
NoLast ==
    [req |-> 0, op |-> "none", arg |-> NULL, target |-> 0, token |-> 0,
     err |-> NoErr, n |-> 0,
     called |-> FALSE, panicked |-> FALSE,
     result |-> Sqlx4kPostgresResult_default]

\* No initialization has been called.
NoRegistry == [runtimes |-> 0, pools |-> <<>>]

\* No SQL text has been passed with the request.
\* The threads that call initialization at the same time.
MaxThreads == 3
Threads == 1 .. MaxThreads
\* RUNTIME is empty (slot 0) and no thread has entered initialization.
NoInits ==
    [slot |-> 0, installed |-> 0,
     th |-> [t \in Threads |-> [pc |-> "out", saw |-> FALSE, error |-> OK]]]
NoSql == [passed |-> <<>>, buffer |-> <<>>, owned |-> <<>>, ran |-> <<>>]

\* No listen call has been made.
NoListener ==
    [st |-> "none", id |-> 0, channels |-> {}, subscribed |-> {}, up |-> FALSE,
     ready |-> 0, main |-> 0]

\* Before any translation, any listen call and any use of a handle.
AsideInit ==
    /\ given = Null
    /\ built = Null
    /\ released = <<>>
    /\ freeing = "none"
    /\ listener = NoListener
    /\ inbound = <<>>
    /\ published = <<>>
    /\ notified = <<>>
    /\ nullDeref = FALSE
    /\ registry = NoRegistry
    /\ sql = [r \in Req |-> NoSql]
    /\ inits = NoInits

Init ==
    /\ runtime = FALSE
    /\ poolState = "none"
    /\ callerPc = "ready"
    /\ conn = [c \in Conns |-> "closed"]
    /\ req = [r \in Req |-> NewReq]
    /\ nextReq = 1
    /\ cbCount = [r \in Req |-> 0]
    /\ last = NoLast
    /\ heap = [a \in Addr |-> FreeCell]
    /\ tx = [t \in Req |-> NoTx]
    /\ cn = [c \in Req |-> NoCn]
    /\ callerTx = [t \in Req |-> NULL]
    /\ callerCn = [c \in Req |-> NULL]
    /\ dbApplied = [t \in Req |-> 0]
    /\ crashed = FALSE
    /\ tx_id = <<>>
    /\ slots = [i \in Ids |-> 0]
    /\ AsideInit

\* ----------------------------------------------------------------- helpers
IdleConns == {c \in Conns : conn[c] = "idle"}
OutConns == {c \in Conns : conn[c] = "out"}
\* A pool that hands out a connection whether it is idle or not.
PickAny == CHOOSE c \in Conns : \A d \in Conns : c <= d
PickIdle == CHOOSE c \in IdleConns : \A d \in IdleConns : c <= d
FreeAddr == {a \in Addr : heap[a].kind = "free"}
InFlight(r) == req[r].st \in {"scheduled", "executing"}

\* A connection dropped by its holder goes back to the pool, or is closed
\* when the pool has been closed meanwhile.
Returned == IF poolState = "closed" THEN "closed" ELSE "idle"

\* An acquire that can only fail with PoolClosed.
AcquireErrorsClosed == {Err("PoolClosed", NoCode)}

\* An acquire on a closed pool that waits for the timeout like one on an
\* exhausted pool.
AcquireErrorsTimedOut ==
    IF poolState = "closed" \/ IdleConns = {} THEN {Err("PoolTimedOut", NoCode)}
    ELSE RequestFatalErrors

\* Errors of Pool::acquire for a task that has not got a connection: the
\* pool is closed; or every connection is checked out, the task waits and
\* the acquire timeout passes; or the connection it is about to get turns
\* out broken.
AcquireErrors ==
    IF poolState = "closed" THEN {Err("PoolClosed", NoCode)}
    ELSE IF IdleConns = {} THEN {Err("PoolTimedOut", NoCode)}
    ELSE RequestFatalErrors

ExecOk(n) == [ok |-> TRUE, rows |-> NoRows, n |-> n, err |-> NoErr]
FetchOk(rows) == [ok |-> TRUE, rows |-> rows, n |-> 0, err |-> NoErr]
Failed(err) == [ok |-> FALSE, rows |-> NoRows, n |-> 0, err |-> err]
ExecOutcomes == {ExecOk(n) : n \in 0 .. MaxAffected} \cup {Failed(e) : e \in StatementErrors}
FetchOutcomes == {FetchOk(rows) : rows \in FetchRows} \cup {Failed(e) : e \in StatementErrors}
UnitOutcomes == {ExecOk(0)} \cup {Failed(e) : e \in StatementErrors}

\* panic! in a task of the scheduler or in an entry point: the process
\* terminates.  Nothing of it is left but the database and what the caller had
\* seen: the callbacks already made.
Terminated(r, op, arg, err) ==
    /\ crashed' = TRUE
    /\ last' = [NoLast EXCEPT !.req = r, !.op = op, !.arg = arg, !.err = err,
                              !.panicked = TRUE]
    /\ runtime' = FALSE
    /\ poolState' = "none"
    /\ callerPc' = "ready"
    /\ conn' = [c \in Conns |-> "closed"]
    /\ req' = [q \in Req |-> NewReq]
    /\ heap' = [a \in Addr |-> FreeCell]
    /\ tx' = [t \in Req |-> NoTx]
    /\ cn' = [c \in Req |-> NoCn]
    /\ callerTx' = [t \in Req |-> NULL]
    /\ callerCn' = [c \in Req |-> NULL]
    /\ tx_id' = <<>>
    /\ slots' = [i \in Ids |-> 0]
    /\ UNCHANGED <<nextReq, cbCount, dbApplied, Aside>>

Panic(r, op, arg, err) == Terminated(r, op, arg, err) /\ UNCHANGED nullDeref

\* fun(callback, result): the callback of request r runs with its result,
\* which ends the task.
Callback(r, token, result, outcome) ==
    /\ cbCount' = [cbCount EXCEPT ![r] = @ + 1]
    /\ last' = [req |-> r, op |-> req[r].op, arg |-> req[r].arg,
                target |-> req[r].target, token |-> token,
                err |-> outcome.err, n |-> outcome.n, called |-> TRUE,
                panicked |-> FALSE, result |-> result]
    /\ crashed' = crashed

\* The tail of a task that hands the callback a token other than its own.
CompleteOtherToken(r, result, outcome) == Callback(r, 0, result, outcome)

\* The tail of every spawned task: `let result = ...await; fun(callback, result)`.
Complete(r, result, outcome) == Callback(r, req[r].token, result, outcome)

\* The task of request r is over.
Finished(r) == [req EXCEPT ![r] = DoneReq]

\* An entry point that runs the work on the calling thread (block_on in place
\* of spawn): the caller is held until the task is over.
SpawnAndWait(r, op, arg, target) ==
    /\ req' = [req EXCEPT ![r] = [NewReq EXCEPT !.st = "scheduled", !.op = op,
                  !.token = TokenOf(r), !.arg = arg, !.target = target]]
    /\ nextReq' = r + 1
    /\ callerPc' = "waiting"

\* runtime.spawn(async move { ... }): the task is queued and the entry point
\* returns to the caller.
Spawn(r, op, arg, target) ==
    /\ req' = [req EXCEPT ![r] = [NewReq EXCEPT !.st = "scheduled", !.op = op,
                  !.token = TokenOf(r), !.arg = arg, !.target = target]]
    /\ nextReq' = r + 1
    /\ callerPc' = "ready"

\* What every request-shaped entry point needs to be callable at all.
CanCall(r) ==
    /\ ~crashed
    /\ callerPc = "ready"
    /\ poolState # "none"
    /\ r = nextReq

\* ------------------------------------------------------- initialization
\* sqlx4k_postgresql_of, up to runtime.block_on(pool): the runtime is
\* created if there is none and the calling thread blocks on the connect.
sqlx4k_postgresql_of_call ==
    /\ ~crashed
    /\ callerPc = "ready"
    /\ poolState = "none"
    /\ runtime' = TRUE
    /\ callerPc' = "in_of"
    /\ UNCHANGED <<poolState, conn, req, nextReq, cbCount, last, heap, tx, cn,
                   callerTx, callerCn, dbApplied, crashed, tx_id, slots,
                   Aside, nullDeref>>

\* Errors connect_with can end with.
ConnectErrors ==
    DatabaseErrors \cup {Err("PoolTimedOut", NoCode)} \cup FatalErrors

\* An initialization that returns the default result when the connect
\* succeeded.
OfResultNoHandle(outcome) ==
    IF outcome.ok THEN Return(Sqlx4kPostgresResult_default)
    ELSE sqlx4k_postgres_error_result_of(outcome.err)

\* The result initialization returns for the outcome of the connect.
OfResult(outcome) ==
    IF outcome.ok
    THEN Return([Sqlx4kPostgresResult_default EXCEPT !.rt = 1])
    ELSE sqlx4k_postgres_error_result_of(outcome.err)

\* sqlx4k_postgresql_of, from the outcome of the connect to its return.
sqlx4k_postgresql_of_return ==
    /\ ~crashed
    /\ callerPc = "in_of"
    /\ \E outcome \in {ExecOk(0)} \cup {Failed(e) : e \in ConnectErrors} :
        LET ret == OfResult(outcome) IN
        IF ret.panic
        THEN Panic(0, "of", NULL, outcome.err)
        ELSE /\ last' = [NoLast EXCEPT !.op = "of", !.err = outcome.err,
                                       !.result = ret.val]
             /\ callerPc' = "ready"
             /\ poolState' = IF outcome.ok THEN "open" ELSE "none"
             /\ conn' = IF outcome.ok THEN [c \in Conns |-> "idle"] ELSE conn
             /\ UNCHANGED <<runtime, req, nextReq, cbCount, heap, tx, cn,
                            callerTx, callerCn, dbApplied, crashed, tx_id, slots,
                            Aside, nullDeref>>

\* ------------------------------------------------------------ entry points
\* Each copies its arguments, spawns the task and returns.
Unspawned ==
    <<runtime, poolState, conn, cbCount, last, heap, tx, cn, dbApplied, crashed,
      tx_id, slots, Aside, nullDeref>>

\* A caller that uses transaction t whenever it is open, whether or not a
\* call on it is pending.
TxReadyAnytime(t) == tx[t].state = "Open"

\* The caller may use transaction t: it holds a handle and no call is pending.
TxReady(t) ==
    /\ callerTx[t] # NULL
    /\ \A q \in Req : ~(InFlight(q) /\ req[q].target = t
                          /\ req[q].op \in {"tx_commit", "tx_rollback", "tx_query", "tx_fetch_all"})

\* The caller may use pooled connection c: it holds a handle, no call on it
\* is pending and no transaction begun on it is still open.
CnReady(c) ==
    /\ callerCn[c] # NULL
    /\ \A q \in Req : ~(InFlight(q) /\ req[q].target = c
                          /\ req[q].op \in {"cn_release", "cn_query", "cn_fetch_all", "cn_tx_begin"})
    /\ \A t \in Req : ~(tx[t].viaCn = c /\ tx[t].state = "Open")

sqlx4k_postgresql_query(r) ==
    /\ CanCall(r)
    /\ Spawn(r, "query", NULL, 0)
    /\ UNCHANGED <<callerTx, callerCn>> /\ UNCHANGED Unspawned

sqlx4k_postgresql_fetch_all(r) ==
    /\ CanCall(r)
    /\ Spawn(r, "fetch_all", NULL, 0)
    /\ UNCHANGED <<callerTx, callerCn>> /\ UNCHANGED Unspawned

sqlx4k_postgresql_close(r) ==
    /\ CanCall(r)
    /\ Spawn(r, "close", NULL, 0)
    /\ UNCHANGED <<callerTx, callerCn>> /\ UNCHANGED Unspawned

sqlx4k_postgresql_cn_acquire(r) ==
    /\ CanCall(r)
    /\ Spawn(r, "cn_acquire", NULL, r)
    /\ UNCHANGED <<callerTx, callerCn>> /\ UNCHANGED Unspawned

sqlx4k_postgresql_cn_release(r, c) ==
    /\ CanCall(r)
    /\ CnReady(c)
    /\ Spawn(r, "cn_release", callerCn[c], c)
    /\ callerCn' = [callerCn EXCEPT ![c] = NULL]
    /\ UNCHANGED callerTx /\ UNCHANGED Unspawned

sqlx4k_postgresql_cn_query(r, c) ==
    /\ CanCall(r)
    /\ CnReady(c)
    /\ Spawn(r, "cn_query", callerCn[c], c)
    /\ UNCHANGED <<callerTx, callerCn>> /\ UNCHANGED Unspawned

sqlx4k_postgresql_cn_fetch_all(r, c) ==
    /\ CanCall(r)
    /\ CnReady(c)
    /\ Spawn(r, "cn_fetch_all", callerCn[c], c)
    /\ UNCHANGED <<callerTx, callerCn>> /\ UNCHANGED Unspawned

sqlx4k_postgresql_cn_tx_begin(r, c) ==
    /\ CanCall(r)
    /\ CnReady(c)
    /\ Spawn(r, "cn_tx_begin", callerCn[c], c)
    /\ UNCHANGED <<callerTx, callerCn>> /\ UNCHANGED Unspawned

sqlx4k_postgresql_tx_begin(r) ==
    /\ CanCall(r)
    /\ Spawn(r, "tx_begin", NULL, r)
    /\ UNCHANGED <<callerTx, callerCn>> /\ UNCHANGED Unspawned

\* The caller gives the handle away with every call on the transaction; the
\* result of tx_query and tx_fetch_all hands one back.
sqlx4k_postgresql_tx_commit(r, t) ==
    /\ CanCall(r)
    /\ TxReady(t)
    /\ Spawn(r, "tx_commit", callerTx[t], t)
    /\ callerTx' = [callerTx EXCEPT ![t] = NULL]
    /\ UNCHANGED callerCn /\ UNCHANGED Unspawned

sqlx4k_postgresql_tx_rollback(r, t) ==
    /\ CanCall(r)
    /\ TxReady(t)
    /\ Spawn(r, "tx_rollback", callerTx[t], t)
    /\ callerTx' = [callerTx EXCEPT ![t] = NULL]
    /\ UNCHANGED callerCn /\ UNCHANGED Unspawned

sqlx4k_postgresql_tx_query(r, t) ==
    /\ CanCall(r)
    /\ TxReady(t)
    /\ Spawn(r, "tx_query", callerTx[t], t)
    /\ callerTx' = [callerTx EXCEPT ![t] = NULL]
    /\ UNCHANGED callerCn /\ UNCHANGED Unspawned

sqlx4k_postgresql_tx_fetch_all(r, t) ==
    /\ CanCall(r)
    /\ TxReady(t)
    /\ Spawn(r, "tx_fetch_all", callerTx[t], t)
    /\ callerTx' = [callerTx EXCEPT ![t] = NULL]
    /\ UNCHANGED callerCn /\ UNCHANGED Unspawned


\* ------------------------------------------------------------------ tasks
\* Variables no pool-routed task touches.
NoHandles ==
    <<runtime, poolState, callerPc, nextReq, heap, tx, cn, callerTx, callerCn,
      dbApplied, tx_id, slots, Aside, nullDeref>>

Scheduled(r, op) == ~crashed /\ req[r].st = "scheduled" /\ req[r].op = op
Executing(r, op) == ~crashed /\ req[r].st = "executing" /\ req[r].op = op
Crash(r, err) == Panic(r, req[r].op, req[r].arg, err)

\* A pool that serves the requests one at a time, in the order of their
\* submission.
PoolAcquireInOrder(r) ==
    /\ poolState = "open"
    /\ IdleConns # {}
    /\ \A q \in Req : q < r => ~InFlight(q)
    /\ conn' = [conn EXCEPT ![PickIdle] = "out"]
    /\ req' = [req EXCEPT ![r].st = "executing", ![r].conn = PickIdle]
    /\ UNCHANGED <<cbCount, last, crashed>> /\ UNCHANGED NoHandles

\* The pool hands an idle connection to the task of request r.
PoolAcquire(r) ==
    /\ poolState = "open"
    /\ IdleConns # {}
    /\ conn' = [conn EXCEPT ![PickIdle] = "out"]
    /\ req' = [req EXCEPT ![r].st = "executing", ![r].conn = PickIdle]
    /\ UNCHANGED <<cbCount, last, crashed>> /\ UNCHANGED NoHandles

\* lines 453-463: pool.size(), the connections the pool has, idle or checked
\* out, and pool.num_idle(), those of them that are idle.
sqlx4k_postgresql_pool_size == Cardinality({c \in Conns : conn[c] # "closed"})
sqlx4k_postgresql_pool_idle_size == Cardinality(IdleConns)

\* A task that keeps its connection when it ends.
DropConnKept(r) == conn

\* Dropping the connection a pool-routed task used, if it got one.
DropConn(r) ==
    IF req[r].conn # 0 THEN [conn EXCEPT ![req[r].conn] = Returned] ELSE conn

\* What the driver call of a pool-routed task ends with: a pool error while
\* it has no connection, the outcome of the statement once it has one.
PoolOutcomes(r, outcomes) ==
    IF req[r].st = "scheduled" THEN {Failed(e) : e \in AcquireErrors} ELSE outcomes

\* Sqlx4kPostgreSql::query --------------------------------------------------
\* A query result that leaves the count of the driver out.
QueryResultNoCount(outcome) ==
    IF outcome.ok THEN Return(Sqlx4kPostgresResult_default)
    ELSE sqlx4k_postgres_error_result_of(outcome.err)

QueryResult(outcome) ==
    IF outcome.ok
    THEN Return([Sqlx4kPostgresResult_default EXCEPT !.rows_affected = outcome.n])
    ELSE sqlx4k_postgres_error_result_of(outcome.err)

Sqlx4kPostgreSql_query_acquire(r) ==
    /\ Scheduled(r, "query")
    /\ PoolAcquire(r)

Sqlx4kPostgreSql_query(r) ==
    /\ ~crashed /\ InFlight(r) /\ req[r].op = "query"
    /\ \E outcome \in PoolOutcomes(r, ExecOutcomes) :
        LET ret == QueryResult(outcome) IN
        IF ret.panic THEN Crash(r, outcome.err)
        ELSE /\ Complete(r, ret.val, outcome)
             /\ req' = Finished(r)
             /\ conn' = DropConn(r)
             /\ UNCHANGED NoHandles

\* Sqlx4kPostgreSql::fetch_all ----------------------------------------------
Sqlx4kPostgreSql_fetch_all_acquire(r) ==
    /\ Scheduled(r, "fetch_all")
    /\ PoolAcquire(r)

Sqlx4kPostgreSql_fetch_all(r) ==
    /\ ~crashed /\ InFlight(r) /\ req[r].op = "fetch_all"
    /\ \E outcome \in PoolOutcomes(r, FetchOutcomes) :
        LET ret == sqlx4k_postgresql_result_of(outcome) IN
        IF ret.panic THEN Crash(r, outcome.err)
        ELSE /\ Complete(r, ret.val, outcome)
             /\ req' = Finished(r)
             /\ conn' = DropConn(r)
             /\ UNCHANGED NoHandles

\* Sqlx4kPostgreSql::close --------------------------------------------------
\* Pool::close marks the pool closed, closes the idle connections and then
\* waits until every checked-out connection has been dropped.
Sqlx4kPostgreSql_close_start(r) ==
    /\ Scheduled(r, "close")
    /\ poolState' = "closed"
    /\ conn' = [c \in Conns |-> IF conn[c] = "idle" THEN "closed" ELSE conn[c]]
    /\ req' = [req EXCEPT ![r].st = "executing"]
    /\ UNCHANGED <<runtime, callerPc, nextReq, cbCount, last, heap, tx, cn,
                   callerTx, callerCn, dbApplied, crashed, tx_id, slots,
                   Aside, nullDeref>>

\* A close that does not wait for the checked-out connections.
Sqlx4kPostgreSql_close_nowait(r) ==
    /\ Executing(r, "close")
    /\ Complete(r, Sqlx4kPostgresResult_default, ExecOk(0))
    /\ req' = Finished(r)
    /\ UNCHANGED conn /\ UNCHANGED NoHandles

Sqlx4kPostgreSql_close(r) ==
    /\ Executing(r, "close")
    /\ OutConns = {}
    /\ Complete(r, Sqlx4kPostgresResult_default, ExecOk(0))
    /\ req' = Finished(r)
    /\ UNCHANGED conn /\ UNCHANGED NoHandles

\* ----------------------------------------------------- pooled connections
\* Variables no cn_* task touches besides those it names.
CnFrame ==
    <<runtime, poolState, callerPc, nextReq, dbApplied, tx_id, slots, Aside>>

\* Sqlx4kPostgreSql::cn_acquire ---------------------------------------------
CnAcquireResult(outcome, a) ==
    IF outcome.ok
    THEN Return([Sqlx4kPostgresResult_default EXCEPT !.cn = a])
    ELSE sqlx4k_postgres_error_result_of(outcome.err)

Sqlx4kPostgreSql_cn_acquire(r) ==
    /\ Scheduled(r, "cn_acquire")
    /\ \E outcome \in {ExecOk(0)} \cup {Failed(e) : e \in AcquireErrors} :
       \E a \in (IF outcome.ok THEN FreeAddr ELSE {NULL}) :
        LET ret == CnAcquireResult(outcome, a) IN
        /\ outcome.ok => poolState = "open" /\ IdleConns # {}
        /\ IF ret.panic THEN Crash(r, outcome.err)
           ELSE /\ Complete(r, ret.val, outcome)
                /\ req' = Finished(r)
                /\ callerCn' = [callerCn EXCEPT ![r] = ret.val.cn]
                /\ IF outcome.ok
                   THEN /\ conn' = [conn EXCEPT ![PickIdle] = "out"]
                        /\ heap' = [heap EXCEPT ![a] = [kind |-> "cn", id |-> r]]
                        /\ cn' = [cn EXCEPT ![r] = [state |-> "held", conn |-> PickIdle]]
                   ELSE UNCHANGED <<conn, heap, cn>>
                /\ UNCHANGED <<tx, callerTx, nullDeref>> /\ UNCHANGED CnFrame

\* Sqlx4kPostgreSql::cn_release ---------------------------------------------
Sqlx4kPostgreSql_cn_release(r) ==
    /\ Scheduled(r, "cn_release")
    /\ IF req[r].arg = NULL
       THEN UNCHANGED <<conn, heap, cn>>
       ELSE /\ heap[req[r].arg].kind = "cn"
            /\ LET c == heap[req[r].arg].id IN
                /\ conn' = [conn EXCEPT ![cn[c].conn] = Returned]
                /\ heap' = [heap EXCEPT ![req[r].arg] = FreeCell]
                /\ cn' = [cn EXCEPT ![c].state = "released"]
    /\ Complete(r, Sqlx4kPostgresResult_default, ExecOk(0))
    /\ req' = Finished(r)
    /\ UNCHANGED <<tx, callerTx, callerCn, nullDeref>> /\ UNCHANGED CnFrame

\* `&mut *(cn.ptr as *mut PoolConnection<Postgres>)` with cn.ptr null: a
\* reference made from the null pointer and used for the driver call, which
\* is undefined. The access terminates the process, or it reads what is at
\* that address and the call goes on to one of its results (a BEGIN that
\* goes on does not succeed: there is no connection to send it on).
NullUses == {"fault", "goes_on"}

\* The task of request r uses the null handle; `ret` is the result and
\* `outcome` the driver outcome it goes on to.
NullDeref(r, use, ret, outcome) ==
    /\ nullDeref' = TRUE
    /\ IF use = "fault" THEN Terminated(r, req[r].op, req[r].arg, NoErr)
       ELSE IF ret.panic
       THEN Terminated(r, req[r].op, req[r].arg, outcome.err)
       ELSE /\ Complete(r, ret.val, outcome)
            /\ req' = Finished(r)
            /\ UNCHANGED <<conn, heap, tx, cn, callerTx, callerCn>>
            /\ UNCHANGED CnFrame

\* Sqlx4kPostgreSql::cn_query -----------------------------------------------
Sqlx4kPostgreSql_cn_query(r) ==
    /\ Scheduled(r, "cn_query")
    /\ \E outcome \in ExecOutcomes, use \in NullUses :
        LET ret == QueryResult(outcome) IN
        IF req[r].arg = NULL THEN NullDeref(r, use, ret, outcome)
        ELSE /\ heap[req[r].arg].kind = "cn"
             /\ IF ret.panic THEN Crash(r, outcome.err)
                ELSE /\ Complete(r, ret.val, outcome)
                     /\ req' = Finished(r)
                     /\ UNCHANGED <<conn, heap, tx, cn, callerTx, callerCn>>
                     /\ UNCHANGED CnFrame /\ UNCHANGED nullDeref

\* Sqlx4kPostgreSql::cn_fetch_all -------------------------------------------
Sqlx4kPostgreSql_cn_fetch_all(r) ==
    /\ Scheduled(r, "cn_fetch_all")
    /\ \E outcome \in FetchOutcomes, use \in NullUses :
        LET ret == sqlx4k_postgresql_result_of(outcome) IN
        IF req[r].arg = NULL THEN NullDeref(r, use, ret, outcome)
        ELSE /\ heap[req[r].arg].kind = "cn"
             /\ IF ret.panic THEN Crash(r, outcome.err)
                ELSE /\ Complete(r, ret.val, outcome)
                     /\ req' = Finished(r)
                     /\ UNCHANGED <<conn, heap, tx, cn, callerTx, callerCn>>
                     /\ UNCHANGED CnFrame /\ UNCHANGED nullDeref

\* ------------------------------------------------------------ transactions
TxFrame ==
    <<runtime, poolState, callerPc, nextReq, cn, callerCn, tx_id, slots, Aside,
      nullDeref>>

\* The result of tx_begin and cn_tx_begin: the boxed transaction's address,
\* or the error and no transaction.
TxBeginResult(outcome, a) ==
    IF outcome.ok
    THEN Return([Sqlx4kPostgresResult_default EXCEPT !.tx = a])
    ELSE sqlx4k_postgres_error_result_of(outcome.err)

\* Box::new(tx) at address a for the transaction begun by request r on
\* connection c (via: the pooled-connection handle it was begun on, or 0).
BoxTx(r, a, c, via) ==
    /\ heap' = [heap EXCEPT ![a] = [kind |-> "tx", id |-> r]]
    /\ tx' = [tx EXCEPT ![r] = [NoTx EXCEPT !.state = "Open", !.conn = c, !.viaCn = via]]

\* Sqlx4kPostgreSql::cn_tx_begin --------------------------------------------
Sqlx4kPostgreSql_cn_tx_begin(r) ==
    /\ Scheduled(r, "cn_tx_begin")
    /\ \E outcome \in UnitOutcomes, use \in NullUses :
       \E a \in (IF outcome.ok THEN FreeAddr ELSE {NULL}) :
        LET ret == TxBeginResult(outcome, a) IN
        IF req[r].arg = NULL
        THEN NullDeref(r, IF outcome.ok THEN "fault" ELSE use, ret, outcome)
        ELSE LET c == heap[req[r].arg].id IN
             /\ heap[req[r].arg].kind = "cn"
             /\ IF ret.panic THEN Crash(r, outcome.err)
                ELSE /\ Complete(r, ret.val, outcome)
                     /\ req' = Finished(r)
                     /\ callerTx' = [callerTx EXCEPT ![r] = ret.val.tx]
                     /\ IF outcome.ok THEN BoxTx(r, a, cn[c].conn, c)
                        ELSE UNCHANGED <<heap, tx>>
                     /\ UNCHANGED <<conn, dbApplied>> /\ UNCHANGED TxFrame

\* Sqlx4kPostgreSql::tx_begin -----------------------------------------------
Sqlx4kPostgreSql_tx_begin_acquire(r) ==
    /\ Scheduled(r, "tx_begin")
    /\ PoolAcquire(r)

Sqlx4kPostgreSql_tx_begin(r) ==
    /\ ~crashed /\ InFlight(r) /\ req[r].op = "tx_begin"
    /\ \E outcome \in PoolOutcomes(r, UnitOutcomes) :
       \E a \in (IF outcome.ok THEN FreeAddr ELSE {NULL}) :
        LET ret == TxBeginResult(outcome, a) IN
        IF ret.panic THEN Crash(r, outcome.err)
        ELSE /\ Complete(r, ret.val, outcome)
             /\ req' = Finished(r)
             /\ callerTx' = [callerTx EXCEPT ![r] = ret.val.tx]
             /\ IF outcome.ok
                THEN BoxTx(r, a, req[r].conn, 0) /\ conn' = conn
                ELSE conn' = DropConn(r) /\ UNCHANGED <<heap, tx>>
             /\ UNCHANGED dbApplied /\ UNCHANGED TxFrame

\* A tx_* method that borrows the transaction (&mut *tx.ptr) and leaves the
\* box where it is.
TxBorrow(r) ==
    /\ heap[req[r].arg].kind = "tx"
    /\ heap' = heap
    /\ req' = [req EXCEPT ![r].st = "executing", ![r].held = heap[req[r].arg].id]
    /\ UNCHANGED <<conn, cbCount, last, tx, callerTx, dbApplied, crashed>>
    /\ UNCHANGED TxFrame

\* Box::from_raw(tx.ptr): the task takes the transaction out of its box,
\* which frees the box, before the first await of every tx_* method.
TxUnbox(r) ==
    /\ heap[req[r].arg].kind = "tx"
    /\ heap' = [heap EXCEPT ![req[r].arg] = FreeCell]
    /\ req' = [req EXCEPT ![r].st = "executing", ![r].held = heap[req[r].arg].id]
    /\ UNCHANGED <<conn, cbCount, last, tx, callerTx, dbApplied, crashed>>
    /\ UNCHANGED TxFrame

\* Dropping a finished transaction gives its connection back to the pool
\* whatever it was begun on.
TxDropConnAlways(t) == [conn EXCEPT ![tx[t].conn] = Returned]

\* Dropping a finished transaction gives its connection back to the pool,
\* unless the connection belongs to a pooled-connection handle.
TxDropConn(t) ==
    IF tx[t].viaCn = 0 THEN [conn EXCEPT ![tx[t].conn] = Returned] ELSE conn

\* The transaction consumed by commit() or rollback().
TxClosed(t, by, outcome) ==
    [tx[t] EXCEPT !.state = "Closed", !.closedBy = by, !.closedOk = outcome.ok]

\* A commit or rollback result that carries the registry handle.
UnitResultWithRegistry(outcome) ==
    IF outcome.ok THEN Return([Sqlx4kPostgresResult_default EXCEPT !.rt = 1])
    ELSE sqlx4k_postgres_error_result_of(outcome.err)

\* Sqlx4kPostgreSql::tx_commit ----------------------------------------------
UnitResult(outcome) ==
    IF outcome.ok THEN Return(Sqlx4kPostgresResult_default)
    ELSE sqlx4k_postgres_error_result_of(outcome.err)

\* tx_commit calling rollback(): nothing becomes visible.
CommitsNothing(t, outcome) == {0}

\* How many statements of transaction t a COMMIT with this outcome makes
\* visible: all of them; after a failed statement the engine decides
\* (PostgreSQL rolls the aborted transaction back, MySQL and SQLite keep
\* the statements that succeeded); none when the COMMIT itself fails.
Commits(t, outcome) ==
    IF ~outcome.ok THEN {0}
    ELSE IF tx[t].failed THEN {0, tx[t].issued} ELSE {tx[t].issued}

Sqlx4kPostgreSql_tx_commit_start(r) ==
    /\ Scheduled(r, "tx_commit")
    /\ TxUnbox(r)

Sqlx4kPostgreSql_tx_commit(r) ==
    /\ Executing(r, "tx_commit")
    /\ \E outcome \in UnitOutcomes : \E k \in Commits(req[r].held, outcome) :
        LET ret == UnitResult(outcome)
            t == req[r].held
        IN
        IF ret.panic THEN Crash(r, outcome.err)
        ELSE /\ Complete(r, ret.val, outcome)
             /\ req' = Finished(r)
             /\ tx' = [tx EXCEPT ![t] = TxClosed(t, "commit", outcome)]
             /\ conn' = TxDropConn(t)
             /\ dbApplied' = [dbApplied EXCEPT ![t] = k]
             /\ UNCHANGED <<heap, callerTx>> /\ UNCHANGED TxFrame

\* Sqlx4kPostgreSql::tx_rollback --------------------------------------------
Sqlx4kPostgreSql_tx_rollback_start(r) ==
    /\ Scheduled(r, "tx_rollback")
    /\ TxUnbox(r)

Sqlx4kPostgreSql_tx_rollback(r) ==
    /\ Executing(r, "tx_rollback")
    /\ \E outcome \in UnitOutcomes :
        LET ret == UnitResult(outcome)
            t == req[r].held
        IN
        IF ret.panic THEN Crash(r, outcome.err)
        ELSE /\ Complete(r, ret.val, outcome)
             /\ req' = Finished(r)
             /\ tx' = [tx EXCEPT ![t] = TxClosed(t, "rollback", outcome)]
             /\ conn' = TxDropConn(t)
             /\ UNCHANGED <<heap, callerTx, dbApplied>> /\ UNCHANGED TxFrame

\* Sqlx4kPostgreSql::tx_query -----------------------------------------------
\* The result of a statement handed on as it is, without the transaction.
WithoutTx(ret, a) == ret

\* The result of a statement with the re-boxed transaction attached.
WithTx(ret, a) ==
    IF ret.panic THEN Panics ELSE Return([ret.val EXCEPT !.tx = a])

\* The transaction after a statement with this outcome ran in it.
TxAfter(t, outcome) ==
    IF outcome.ok THEN [tx[t] EXCEPT !.issued = @ + 1]
    ELSE [tx[t] EXCEPT !.failed = TRUE]

Sqlx4kPostgreSql_tx_query_start(r) ==
    /\ Scheduled(r, "tx_query")
    /\ TxUnbox(r)

Sqlx4kPostgreSql_tx_query(r) ==
    /\ Executing(r, "tx_query")
    /\ \E outcome \in ExecOutcomes : \E a \in FreeAddr :
        LET ret == WithTx(QueryResult(outcome), a)
            t == req[r].held
        IN
        IF ret.panic THEN Crash(r, outcome.err)
        ELSE /\ Complete(r, ret.val, outcome)
             /\ req' = Finished(r)
             /\ heap' = [heap EXCEPT ![a] = [kind |-> "tx", id |-> t]]
             /\ tx' = [tx EXCEPT ![t] = TxAfter(t, outcome)]
             /\ callerTx' = [callerTx EXCEPT ![req[r].target] = ret.val.tx]
             /\ UNCHANGED <<conn, dbApplied>> /\ UNCHANGED TxFrame

\* Sqlx4kPostgreSql::tx_fetch_all -------------------------------------------
Sqlx4kPostgreSql_tx_fetch_all_start(r) ==
    /\ Scheduled(r, "tx_fetch_all")
    /\ TxUnbox(r)

Sqlx4kPostgreSql_tx_fetch_all(r) ==
    /\ Executing(r, "tx_fetch_all")
    /\ \E outcome \in FetchOutcomes : \E a \in FreeAddr :
        LET ret == WithTx(sqlx4k_postgresql_result_of(outcome), a)
            t == req[r].held
        IN
        IF ret.panic THEN Crash(r, outcome.err)
        ELSE /\ Complete(r, ret.val, outcome)
             /\ req' = Finished(r)
             /\ heap' = [heap EXCEPT ![a] = [kind |-> "tx", id |-> t]]
             /\ tx' = [tx EXCEPT ![t] = IF outcome.ok THEN tx[t]
                                         ELSE TxAfter(t, outcome)]
             /\ callerTx' = [callerTx EXCEPT ![req[r].target] = ret.val.tx]
             /\ UNCHANGED <<conn, dbApplied>> /\ UNCHANGED TxFrame

\* ------------------------------------------------------------ specification
\* One call of the caller: request r through any of the entry points.
Call(r) ==
    \/ sqlx4k_postgresql_query(r)
    \/ sqlx4k_postgresql_fetch_all(r)
    \/ sqlx4k_postgresql_close(r)
    \/ sqlx4k_postgresql_cn_acquire(r)
    \/ sqlx4k_postgresql_tx_begin(r)
    \/ \E c \in Req :
        \/ sqlx4k_postgresql_cn_release(r, c)
        \/ sqlx4k_postgresql_cn_query(r, c)
        \/ sqlx4k_postgresql_cn_fetch_all(r, c)
        \/ sqlx4k_postgresql_cn_tx_begin(r, c)
    \/ \E t \in Req :
        \/ sqlx4k_postgresql_tx_commit(r, t)
        \/ sqlx4k_postgresql_tx_rollback(r, t)
        \/ sqlx4k_postgresql_tx_query(r, t)
        \/ sqlx4k_postgresql_tx_fetch_all(r, t)

\* One step of the task of request r on the scheduler.
Task(r) ==
    \/ Sqlx4kPostgreSql_query_acquire(r)
    \/ Sqlx4kPostgreSql_query(r)
    \/ Sqlx4kPostgreSql_fetch_all_acquire(r)
    \/ Sqlx4kPostgreSql_fetch_all(r)
    \/ Sqlx4kPostgreSql_close_start(r)
    \/ Sqlx4kPostgreSql_close(r)
    \/ Sqlx4kPostgreSql_cn_acquire(r)
    \/ Sqlx4kPostgreSql_cn_release(r)
    \/ Sqlx4kPostgreSql_cn_query(r)
    \/ Sqlx4kPostgreSql_cn_fetch_all(r)
    \/ Sqlx4kPostgreSql_cn_tx_begin(r)
    \/ Sqlx4kPostgreSql_tx_begin_acquire(r)
    \/ Sqlx4kPostgreSql_tx_begin(r)
    \/ Sqlx4kPostgreSql_tx_commit_start(r)
    \/ Sqlx4kPostgreSql_tx_commit(r)
    \/ Sqlx4kPostgreSql_tx_rollback_start(r)
    \/ Sqlx4kPostgreSql_tx_rollback(r)
    \/ Sqlx4kPostgreSql_tx_query_start(r)
    \/ Sqlx4kPostgreSql_tx_query(r)
    \/ Sqlx4kPostgreSql_tx_fetch_all_start(r)
    \/ Sqlx4kPostgreSql_tx_fetch_all(r)

\* A caller that submits up to MaxReq requests, concurrently.
Next ==
    \/ sqlx4k_postgresql_of_call
    \/ sqlx4k_postgresql_of_return
    \/ \E r \in 1 .. MaxReq : Call(r)
    \/ \E r \in Req : Task(r)

Spec == Init /\ [][Next]_vars

\* No request is in flight: every callback has fired.
Quiet == \A q \in Req : ~InFlight(q)

\* A sequential caller: up to MaxSeq requests, each submitted only after
\* the callback of the previous one has fired.
NextSeq ==
    \/ sqlx4k_postgresql_of_call
    \/ sqlx4k_postgresql_of_return
    \/ Quiet /\ \E r \in Req : Call(r)
    \/ \E r \in Req : Task(r)

SpecSeq == Init /\ [][NextSeq]_vars

\* The multi-thread scheduler runs every task that can take a step; the
\* caller is under no obligation to make a further call.
SpecLive == Spec /\ \A r \in Req : WF_vars(Task(r))

\* A caller of the pooled-connection operations that may pass the null
\* handle: a handle it never acquired.
CnOps == {"cn_release", "cn_query", "cn_fetch_all", "cn_tx_begin"}

\* lines 530-599: the entry points wrap the pointer they are given and
\* spawn the task; none of them looks at it.
CnCallNull(r, op) ==
    /\ CanCall(r)
    /\ Spawn(r, op, NULL, 0)
    /\ UNCHANGED <<callerTx, callerCn>> /\ UNCHANGED Unspawned

NextNull ==
    \/ sqlx4k_postgresql_of_call
    \/ sqlx4k_postgresql_of_return
    \/ \E r \in 1 .. MaxReq :
        \/ sqlx4k_postgresql_cn_acquire(r)
        \/ \E op \in CnOps : CnCallNull(r, op)
        \/ \E c \in Req :
            \/ sqlx4k_postgresql_cn_release(r, c)
            \/ sqlx4k_postgresql_cn_query(r, c)
            \/ sqlx4k_postgresql_cn_fetch_all(r, c)
            \/ sqlx4k_postgresql_cn_tx_begin(r, c)
    \/ \E r \in Req :
        \/ Sqlx4kPostgreSql_cn_acquire(r)
        \/ Sqlx4kPostgreSql_cn_release(r)
        \/ Sqlx4kPostgreSql_cn_query(r)
        \/ Sqlx4kPostgreSql_cn_fetch_all(r)
        \/ Sqlx4kPostgreSql_cn_tx_begin(r)

SpecNull == Init /\ [][NextNull]_vars

\* ------------------------------------------- repeated initialization
\* sqlx4k_postgresql_of called any number of times: every call that connects
\* boxes a new Sqlx4kPostgreSql with the new pool and returns its address;
\* the requests name the registry handle they go through.
MaxPools == 2

\* A process that makes a scheduler in every initialization.
RuntimeAlwaysNew(n) == n + 1
\* lines 396-402: the scheduler of RUNTIME if there is one, or else a new
\* one that is stored there. The count of the schedulers made.
RuntimeGetOrNew(n) == IF n > 0 THEN n ELSE n + 1

\* What the requests through a registry handle leave alone.
RegistryFrame ==
    <<poolState, conn, heap, tx, cn, callerTx, callerCn, dbApplied, tx_id,
      slots, given, built, released, freeing, listener, inbound, published,
      notified, nullDeref, sql, inits>>

\* The registry handles the caller has been given.
Handles == 1 .. Len(registry.pools)

\* lines 378-434, up to runtime.block_on(pool).
sqlx4k_postgresql_of_again_call ==
    /\ ~crashed
    /\ callerPc = "ready"
    /\ Len(registry.pools) < MaxPools
    /\ registry' = [registry EXCEPT !.runtimes = RuntimeGetOrNew(@)]
    /\ runtime' = TRUE
    /\ callerPc' = "in_of"
    /\ UNCHANGED <<req, nextReq, cbCount, last, crashed>>
    /\ UNCHANGED RegistryFrame

\* lines 435-451: the result of the connect; the record is boxed at an
\* address no other record has, as none is ever dropped.
OfResultAt(outcome, h) ==
    IF outcome.ok
    THEN Return([Sqlx4kPostgresResult_default EXCEPT !.rt = h])
    ELSE sqlx4k_postgres_error_result_of(outcome.err)

sqlx4k_postgresql_of_again_return ==
    /\ ~crashed
    /\ callerPc = "in_of"
    /\ \E outcome \in {ExecOk(0)} \cup {Failed(e) : e \in ConnectErrors} :
        LET ret == OfResultAt(outcome, Len(registry.pools) + 1) IN
        IF ret.panic
        THEN Panic(0, "of", NULL, outcome.err)
        ELSE /\ last' = [NoLast EXCEPT !.op = "of", !.err = outcome.err,
                                       !.result = ret.val]
             /\ callerPc' = "ready"
             /\ registry' = IF outcome.ok
                            THEN [registry EXCEPT !.pools = Append(@, "open")]
                            ELSE registry
             /\ UNCHANGED <<runtime, req, nextReq, cbCount, crashed>>
             /\ UNCHANGED RegistryFrame

\* lines 480-495 and 465-478 with the registry handle h as `rt`.
sqlx4k_postgresql_query_rt(r, h) ==
    /\ ~crashed /\ callerPc = "ready" /\ r = nextReq
    /\ h \in Handles
    /\ Spawn(r, "query", NULL, h)
    /\ UNCHANGED <<runtime, cbCount, last, crashed, registry>>
    /\ UNCHANGED RegistryFrame

sqlx4k_postgresql_close_rt(r, h) ==
    /\ ~crashed /\ callerPc = "ready" /\ r = nextReq
    /\ h \in Handles
    /\ Spawn(r, "close", NULL, h)
    /\ UNCHANGED <<runtime, cbCount, last, crashed, registry>>
    /\ UNCHANGED RegistryFrame

\* lines 218-228 on the pool of the record the handle points to.
Sqlx4kPostgreSql_query_rt(r) ==
    /\ Scheduled(r, "query")
    /\ \E outcome \in IF registry.pools[req[r].target] = "closed"
                      THEN {Failed(Err("PoolClosed", NoCode))}
                      ELSE ExecOutcomes \cup {Failed(Err("PoolTimedOut", NoCode))} :
        LET ret == QueryResult(outcome) IN
        IF ret.panic THEN Crash(r, outcome.err)
        ELSE /\ Complete(r, ret.val, outcome)
             /\ req' = Finished(r)
             /\ UNCHANGED <<runtime, callerPc, nextReq, registry>>
             /\ UNCHANGED RegistryFrame

\* lines 372-375 on the pool of the record the handle points to.
Sqlx4kPostgreSql_close_rt(r) ==
    /\ Scheduled(r, "close")
    /\ registry' = [registry EXCEPT !.pools[req[r].target] = "closed"]
    /\ Complete(r, Sqlx4kPostgresResult_default, ExecOk(0))
    /\ req' = Finished(r)
    /\ UNCHANGED <<runtime, callerPc, nextReq>>
    /\ UNCHANGED RegistryFrame

NextRegistry ==
    \/ sqlx4k_postgresql_of_again_call
    \/ sqlx4k_postgresql_of_again_return
    \/ \E r \in 1 .. MaxReq, h \in 1 .. MaxPools :
        \/ sqlx4k_postgresql_query_rt(r, h)
        \/ sqlx4k_postgresql_close_rt(r, h)
    \/ \E r \in Req :
        \/ Sqlx4kPostgreSql_query_rt(r)
        \/ Sqlx4kPostgreSql_close_rt(r)

SpecRegistry == Init /\ [][NextRegistry]_vars

\* ---------------------------------------------- concurrent initialization
\* sqlx4k_postgresql_of called by several threads at once (the sqlite and
\* mysql variants have the same lines). RUNTIME is a OnceLock: get and set
\* are each atomic, the check of line 396 and the set of line 400 are two
\* steps of the calling thread.
InitFrame ==
    <<poolState, callerPc, conn, req, nextReq, cbCount, heap, tx, cn, callerTx,
      callerCn, dbApplied, tx_id, slots, given, built, released, freeing,
      listener, inbound, published, notified, nullDeref, registry, sql>>

\* line 396: `RUNTIME.get().is_some()`.
sqlx4k_postgresql_of_check(t) ==
    /\ ~crashed
    /\ inits.th[t].pc = "out"
    /\ inits' = [inits EXCEPT !.th[t].pc = "checked", !.th[t].saw = (inits.slot # 0)]
    /\ UNCHANGED <<runtime, last, crashed>>
    /\ UNCHANGED InitFrame

\* lines 397-401: the branch taken on what the check saw. RUNTIME.get()
\* when it saw a scheduler; else Runtime::new() and RUNTIME.set(rt), which
\* returns Err(rt) when the slot has been filled meanwhile, and the unwrap
\* of that Err panics.
sqlx4k_postgresql_of_install(t) ==
    /\ ~crashed
    /\ inits.th[t].pc = "checked"
    /\ IF inits.th[t].saw
       THEN /\ inits' = [inits EXCEPT !.th[t].pc = "connect"]
            /\ UNCHANGED <<runtime, last, crashed>>
            /\ UNCHANGED InitFrame
       ELSE IF inits.slot = 0
       THEN /\ inits' = [inits EXCEPT !.th[t].pc = "connect", !.slot = t,
                                      !.installed = @ + 1]
            /\ runtime' = TRUE
            /\ UNCHANGED <<last, crashed>>
            /\ UNCHANGED InitFrame
       ELSE Panic(0, "RUNTIME.set", NULL, NoErr)

\* lines 404-451: the pool is connected on the scheduler and the result
\* returned to the calling thread.
sqlx4k_postgresql_of_connect(t) ==
    /\ ~crashed
    /\ inits.th[t].pc = "connect"
    /\ \E outcome \in {ExecOk(0)} \cup {Failed(e) : e \in ConnectErrors} :
        LET ret == OfResultAt(outcome, t) IN
        IF ret.panic
        THEN Panic(0, "of", NULL, outcome.err)
        ELSE /\ inits' = [inits EXCEPT !.th[t].pc = "done",
                                       !.th[t].error = ret.val.error]
             /\ last' = [NoLast EXCEPT !.op = "of", !.err = outcome.err,
                                       !.result = ret.val]
             /\ UNCHANGED <<runtime, crashed>>
             /\ UNCHANGED InitFrame

NextInit ==
    \E t \in Threads :
        \/ sqlx4k_postgresql_of_check(t)
        \/ sqlx4k_postgresql_of_install(t)
        \/ sqlx4k_postgresql_of_connect(t)

SpecInit == Init /\ [][NextInit]_vars

\* ---------------------------------------------------------- SQL text
\* The SQL text of a request: a NUL-terminated buffer of the caller, here
\* the sequence of its bytes before the NUL; "bad" is a byte that is not
\* valid UTF-8, <<"freed">> a buffer the caller has released.
SqlBytes == {"s", "x", "bad"}
MaxSql == 1
SqlTexts == UNION {[1 .. n -> SqlBytes] : n \in 1 .. MaxSql}
Freed == <<"freed">>

\* lines 201-203: CStr::from_ptr(c_chars).to_str().unwrap() borrows the
\* bytes of the buffer, and panics unless they are UTF-8.
c_chars_to_str_postgres(buffer) ==
    IF \E i \in 1 .. Len(buffer) : buffer[i] = "bad" THEN Panics
    ELSE Return(buffer)

\* A task that reads the caller's buffer when it runs.
SqlBorrowed(r) == sql[r].buffer
\* line 492: `sqlx4k.query(&sql)` with the String the closure has moved in.
SqlOwned(r) == sql[r].owned

\* What the SQL text actions leave alone.
SqlFrame ==
    <<runtime, poolState, conn, heap, tx, cn, callerTx, callerCn, dbApplied,
      tx_id, slots, given, built, released, freeing, listener, inbound,
      published, notified, nullDeref, registry, inits>>

\* lines 480-495: the text is converted and copied (to_owned) on the
\* calling thread, then the task is spawned with the copy.
sqlx4k_postgresql_query_sql(r, text) ==
    /\ CanCall(r)
    /\ LET str == c_chars_to_str_postgres(text) IN
       IF str.panic
       THEN Panic(r, "query", NULL, Err("Utf8", NoCode))
       ELSE /\ sql' = [sql EXCEPT ![r] = [passed |-> text, buffer |-> text,
                                          owned |-> str.val, ran |-> <<>>]]
            /\ Spawn(r, "query", NULL, 0)
            /\ UNCHANGED <<cbCount, last, crashed>>
            /\ UNCHANGED SqlFrame

\* After the entry point returned the buffer is the caller's again: it
\* writes another text into it, or releases it.
CallerReusesBuffer(r, text) ==
    /\ ~crashed
    /\ req[r].st # "new"
    /\ sql[r].buffer # text
    /\ sql' = [sql EXCEPT ![r].buffer = text]
    /\ UNCHANGED <<callerPc, req, nextReq, cbCount, last, crashed>>
    /\ UNCHANGED SqlFrame

\* lines 491-494: the task runs its text on the pool and calls back.
Sqlx4kPostgreSql_query_sql(r) ==
    /\ Scheduled(r, "query")
    /\ sql' = [sql EXCEPT ![r].ran = SqlOwned(r)]
    /\ \E outcome \in ExecOutcomes \cup {Failed(e) : e \in AcquireErrors} :
        LET ret == QueryResult(outcome) IN
        IF ret.panic
        THEN /\ crashed' = TRUE
             /\ last' = [NoLast EXCEPT !.req = r, !.op = "query",
                                       !.err = outcome.err, !.panicked = TRUE]
             /\ UNCHANGED <<req, cbCount>>
        ELSE /\ Complete(r, ret.val, outcome)
             /\ req' = Finished(r)
    /\ UNCHANGED <<callerPc, nextReq>>
    /\ UNCHANGED SqlFrame

NextSql ==
    \/ sqlx4k_postgresql_of_call
    \/ sqlx4k_postgresql_of_return
    \/ \E r \in 1 .. MaxReq, text \in SqlTexts : sqlx4k_postgresql_query_sql(r, text)
    \/ \E r \in Req, text \in SqlTexts \cup {Freed} : CallerReusesBuffer(r, text)
    \/ \E r \in Req : Sqlx4kPostgreSql_query_sql(r)

SpecSql == Init /\ [][NextSql]_vars

\* ------------------------------------------------------ slot-table variant
\* src/rust_lib/src/lib.rs: transactions are named by integer ids handed out
\* from a free list; the driver results of every call but fetch_all and
\* tx_fetch_all are unwrapped.

Sqlx4kResult_default ==
    [error |-> 0, error_message |-> Null, tx |-> 0, size |-> 0, rows |-> Null]

\* Result::unwrap: the value, or a panic.
Unwrap(outcome, v) == IF outcome.ok THEN Return(v) ELSE Panics

\* Column i of a row in the typed flat form; value.as_str().unwrap() panics
\* on SQL NULL.
sqlx4k_value_of(value) ==
    IF IsNull(value) THEN Panics
    ELSE Return([kind |-> 9, size |-> Len(value[1]), value |-> value])

sqlx4k_row_of(row) ==
    IF Len(row) = 0 THEN Return([size |-> 0, columns |-> Null])
    ELSE IF \E i \in 1 .. Len(row) : sqlx4k_value_of(row[i]).panic THEN Panics
    ELSE Return([size |-> Len(row),
                 columns |-> Ptr([i \in 1 .. Len(row) |->
                    [ordinal |-> i - 1, name |-> Ptr("c"),
                     kind |-> sqlx4k_value_of(row[i]).val.kind,
                     size |-> sqlx4k_value_of(row[i]).val.size,
                     value |-> sqlx4k_value_of(row[i]).val.value]])])

\* The message the slot-table translator gives a driver error.
SlotMessage(err) ==
    CASE err.kind = "PoolTimedOut" -> <<"PoolTimedOut">>
      [] err.kind = "PoolClosed" -> <<"PoolClosed">>
      [] err.kind = "WorkerCrashed" -> <<"WorkerCrashed">>
      [] err.kind = "Database" ->
            IF err.code # NoCode THEN <<"[", err.code, "] ", "db">> ELSE <<"db">>
      [] OTHER -> <<"Unknown error.">>

sqlx4k_result_of(result) ==
    IF result.ok
    THEN IF \E i \in 1 .. Len(result.rows) : sqlx4k_row_of(result.rows[i]).panic
         THEN Panics
         ELSE Return([Sqlx4kResult_default EXCEPT
                !.size = Len(result.rows),
                !.rows = Ptr([i \in 1 .. Len(result.rows) |->
                                sqlx4k_row_of(result.rows[i]).val])])
    ELSE Return([Sqlx4kResult_default EXCEPT
            !.error = 1, !.error_message = Ptr(SlotMessage(result.err))])

\* The state of the slot-table variant after process start.
InitSlot ==
    /\ runtime = FALSE
    /\ poolState = "none"
    /\ callerPc = "ready"
    /\ conn = [c \in Conns |-> "closed"]
    /\ req = [r \in Req |-> NewReq]
    /\ nextReq = 1
    /\ cbCount = [r \in Req |-> 0]
    /\ last = [NoLast EXCEPT !.result = Sqlx4kResult_default]
    /\ heap = [a \in Addr |-> FreeCell]
    /\ tx = [t \in Req |-> NoTx]
    /\ cn = [c \in Req |-> NoCn]
    /\ callerTx = [t \in Req |-> Null]
    /\ callerCn = [c \in Req |-> NULL]
    /\ dbApplied = [t \in Req |-> 0]
    /\ crashed = FALSE
    /\ tx_id = <<>>
    /\ slots = [i \in Ids |-> 0]
    /\ AsideInit

\* Variables of the canonical variant only.
Unslotted == <<heap, cn, callerCn, Aside, nullDeref>>

\* sqlx4k_of, up to runtime.block_on(pool).
sqlx4k_of_call ==
    /\ ~crashed
    /\ callerPc = "ready"
    /\ poolState = "none"
    /\ callerPc' = "in_of"
    /\ UNCHANGED <<runtime, poolState, conn, req, nextReq, cbCount, last, tx,
                   callerTx, dbApplied, crashed, tx_id, slots>>
    /\ UNCHANGED Unslotted

\* The free list (0 ..= max_connections - 1).collect().
AllIds == [i \in 1 .. MaxConn |-> i - 1]

\* sqlx4k_of, from the outcome of the connect: the unwrap, the free list and
\* the slot table, RUNTIME.set and SQLX4K.set, the default result.
sqlx4k_of_return ==
    /\ ~crashed
    /\ callerPc = "in_of"
    /\ \E outcome \in {ExecOk(0)} \cup {Failed(e) : e \in ConnectErrors} :
        LET ret == Unwrap(outcome, Sqlx4kResult_default) IN
        IF ret.panic
        THEN Panic(0, "of", NULL, outcome.err)
        ELSE /\ last' = [NoLast EXCEPT !.op = "of", !.result = ret.val]
             /\ runtime' = TRUE
             /\ callerPc' = "ready"
             /\ poolState' = "open"
             /\ conn' = [c \in Conns |-> "idle"]
             /\ tx_id' = AllIds
             /\ slots' = [i \in Ids |-> 0]
             /\ UNCHANGED <<req, nextReq, cbCount, tx, callerTx, dbApplied, crashed>>
             /\ UNCHANGED Unslotted

\* runtime.spawn with the caller's first argument idx, which the callback
\* gets back: the correlation token, or the transaction id in the tx_* calls
\* that take one.
SpawnIdx(r, op, idx, arg, target) ==
    /\ req' = [req EXCEPT ![r] = [NewReq EXCEPT !.st = "scheduled", !.op = op,
                  !.token = idx, !.arg = arg, !.target = target]]
    /\ nextReq' = r + 1
    /\ callerPc' = "ready"

SlotUnspawned ==
    <<runtime, poolState, conn, cbCount, last, tx, dbApplied, crashed, tx_id, slots>>

\* The caller may use transaction t: it holds its id and no call is pending.
SlotTxReady(t) ==
    /\ ~IsNull(callerTx[t])
    /\ \A q \in Req : ~(InFlight(q) /\ req[q].target = t)

sqlx4k_query(r) ==
    /\ CanCall(r)
    /\ SpawnIdx(r, "query", TokenOf(r), NULL, 0)
    /\ UNCHANGED callerTx /\ UNCHANGED SlotUnspawned /\ UNCHANGED Unslotted

sqlx4k_fetch_all(r) ==
    /\ CanCall(r)
    /\ SpawnIdx(r, "fetch_all", TokenOf(r), NULL, 0)
    /\ UNCHANGED callerTx /\ UNCHANGED SlotUnspawned /\ UNCHANGED Unslotted

sqlx4k_tx_begin(r) ==
    /\ CanCall(r)
    /\ SpawnIdx(r, "tx_begin", TokenOf(r), NULL, r)
    /\ UNCHANGED callerTx /\ UNCHANGED SlotUnspawned /\ UNCHANGED Unslotted

sqlx4k_tx_commit(r, t) ==
    /\ CanCall(r)
    /\ SlotTxReady(t)
    /\ SpawnIdx(r, "tx_commit", callerTx[t][1], callerTx[t][1], t)
    /\ callerTx' = [callerTx EXCEPT ![t] = Null]
    /\ UNCHANGED SlotUnspawned /\ UNCHANGED Unslotted

sqlx4k_tx_rollback(r, t) ==
    /\ CanCall(r)
    /\ SlotTxReady(t)
    /\ SpawnIdx(r, "tx_rollback", callerTx[t][1], callerTx[t][1], t)
    /\ callerTx' = [callerTx EXCEPT ![t] = Null]
    /\ UNCHANGED SlotUnspawned /\ UNCHANGED Unslotted

sqlx4k_tx_query(r, t) ==
    /\ CanCall(r)
    /\ SlotTxReady(t)
    /\ SpawnIdx(r, "tx_query", callerTx[t][1], callerTx[t][1], t)
    /\ UNCHANGED callerTx /\ UNCHANGED SlotUnspawned /\ UNCHANGED Unslotted

sqlx4k_tx_fetch_all(r, t) ==
    /\ CanCall(r)
    /\ SlotTxReady(t)
    /\ SpawnIdx(r, "tx_fetch_all", callerTx[t][1], callerTx[t][1], t)
    /\ UNCHANGED callerTx /\ UNCHANGED SlotUnspawned /\ UNCHANGED Unslotted

\* Variables no pool-routed task of the slot-table variant touches.
SlotFrame ==
    <<runtime, poolState, callerPc, nextReq, tx, callerTx, dbApplied, tx_id, slots>>

\* Sqlx4k::query: fetch_optional(sql).await.unwrap(), then the default result.
Sqlx4k_query_acquire(r) ==
    /\ Scheduled(r, "query")
    /\ PoolAcquire(r)

Sqlx4k_query(r) ==
    /\ ~crashed /\ InFlight(r) /\ req[r].op = "query"
    /\ \E outcome \in PoolOutcomes(r, ExecOutcomes) :
        LET ret == Unwrap(outcome, Sqlx4kResult_default) IN
        IF ret.panic THEN Crash(r, outcome.err)
        ELSE /\ Complete(r, ret.val, outcome)
             /\ req' = Finished(r)
             /\ conn' = DropConn(r)
             /\ UNCHANGED SlotFrame /\ UNCHANGED Unslotted

\* Sqlx4k::fetch_all
Sqlx4k_fetch_all_acquire(r) ==
    /\ Scheduled(r, "fetch_all")
    /\ PoolAcquire(r)

Sqlx4k_fetch_all(r) ==
    /\ ~crashed /\ InFlight(r) /\ req[r].op = "fetch_all"
    /\ \E outcome \in PoolOutcomes(r, FetchOutcomes) :
        LET ret == sqlx4k_result_of(outcome) IN
        IF ret.panic THEN Crash(r, outcome.err)
        ELSE /\ Complete(r, ret.val, outcome)
             /\ req' = Finished(r)
             /\ conn' = DropConn(r)
             /\ UNCHANGED SlotFrame /\ UNCHANGED Unslotted

\* Sqlx4k::tx_begin: pool.begin().await.unwrap(), then an id popped off the
\* free list, the check of its slot, the transaction boxed into the slot.
Sqlx4k_tx_begin_acquire(r) ==
    /\ Scheduled(r, "tx_begin")
    /\ PoolAcquire(r)

\* guard.pop(): the last id of the free list.
PopId == tx_id[Len(tx_id)]

Sqlx4k_tx_begin(r) ==
    /\ ~crashed /\ InFlight(r) /\ req[r].op = "tx_begin"
    /\ \E outcome \in PoolOutcomes(r, UnitOutcomes) :
        LET ret == Unwrap(outcome, Sqlx4kResult_default) IN
        IF ret.panic THEN Crash(r, outcome.err)
        ELSE IF tx_id = <<>> THEN Crash(r, NoErr)
        ELSE IF slots[PopId] # 0 THEN Crash(r, NoErr)
        ELSE /\ Complete(r, [ret.val EXCEPT !.tx = PopId], outcome)
             /\ req' = Finished(r)
             /\ tx_id' = SubSeq(tx_id, 1, Len(tx_id) - 1)
             /\ slots' = [slots EXCEPT ![PopId] = r]
             /\ tx' = [tx EXCEPT ![r] = [NoTx EXCEPT !.state = "Open",
                                                     !.conn = req[r].conn]]
             /\ callerTx' = [callerTx EXCEPT ![r] = Ptr(PopId)]
             /\ UNCHANGED <<runtime, poolState, callerPc, nextReq, conn, dbApplied>>
             /\ UNCHANGED Unslotted

\* The first part of a tx_* method without the check of the slot.
SlotTakeUnchecked(r, empties) ==
    LET id == req[r].arg IN
    /\ req' = [req EXCEPT ![r].st = "executing", ![r].held = slots[id]]
    /\ slots' = IF empties THEN [slots EXCEPT ![id] = 0] ELSE slots
    /\ UNCHANGED <<runtime, poolState, callerPc, nextReq, conn, cbCount,
                   last, tx, callerTx, dbApplied, crashed, tx_id>>
    /\ UNCHANGED Unslotted

\* The first part of every Sqlx4k::tx_* method: the slot is read, a null slot
\* is fatal, the transaction is taken out of its box; commit and rollback
\* also empty the slot.
SlotTake(r, empties) ==
    LET id == req[r].arg IN
    IF slots[id] = 0 THEN Crash(r, NoErr)
    ELSE /\ req' = [req EXCEPT ![r].st = "executing", ![r].held = slots[id]]
         /\ slots' = IF empties THEN [slots EXCEPT ![id] = 0] ELSE slots
         /\ UNCHANGED <<runtime, poolState, callerPc, nextReq, conn, cbCount,
                        last, tx, callerTx, dbApplied, crashed, tx_id>>
         /\ UNCHANGED Unslotted

\* tx.commit().await.unwrap() or tx.rollback().await.unwrap(): the
\* transaction is over and its connection back in the pool; the task has
\* still to give the id back.
SlotClose(r, by, outcome, k) ==
    LET ret == Unwrap(outcome, Sqlx4kResult_default)
        t == req[r].held
    IN
    IF ret.panic THEN Crash(r, outcome.err)
    ELSE /\ req' = [req EXCEPT ![r].st = "pushing"]
         /\ tx' = [tx EXCEPT ![t] = TxClosed(t, by, outcome)]
         /\ conn' = TxDropConn(t)
         /\ dbApplied' = [dbApplied EXCEPT ![t] = k]
         /\ UNCHANGED <<runtime, poolState, callerPc, nextReq, cbCount, last,
                        callerTx, crashed, tx_id, slots>>
         /\ UNCHANGED Unslotted

\* guard.push(id), the result with the id, the callback.
SlotPush(r) ==
    /\ ~crashed /\ req[r].st = "pushing"
    /\ Complete(r, [Sqlx4kResult_default EXCEPT !.tx = req[r].arg], ExecOk(0))
    /\ req' = Finished(r)
    /\ tx_id' = Append(tx_id, req[r].arg)
    /\ UNCHANGED <<runtime, poolState, callerPc, nextReq, conn, tx, callerTx,
                   dbApplied, slots>>
    /\ UNCHANGED Unslotted

Sqlx4k_tx_commit_start(r) ==
    /\ Scheduled(r, "tx_commit")
    /\ SlotTake(r, TRUE)

Sqlx4k_tx_commit(r) ==
    /\ Executing(r, "tx_commit")
    /\ \E outcome \in UnitOutcomes : \E k \in Commits(req[r].held, outcome) :
        SlotClose(r, "commit", outcome, k)

Sqlx4k_tx_commit_push(r) ==
    /\ req[r].op = "tx_commit"
    /\ SlotPush(r)

Sqlx4k_tx_rollback_start(r) ==
    /\ Scheduled(r, "tx_rollback")
    /\ SlotTake(r, TRUE)

Sqlx4k_tx_rollback(r) ==
    /\ Executing(r, "tx_rollback")
    /\ \E outcome \in UnitOutcomes : SlotClose(r, "rollback", outcome, 0)

Sqlx4k_tx_rollback_push(r) ==
    /\ req[r].op = "tx_rollback"
    /\ SlotPush(r)

\* The transaction boxed again into its slot after a statement.
SlotPut(r) == [slots EXCEPT ![req[r].arg] = req[r].held]

Sqlx4k_tx_query_start(r) ==
    /\ Scheduled(r, "tx_query")
    /\ SlotTake(r, FALSE)

Sqlx4k_tx_query(r) ==
    /\ Executing(r, "tx_query")
    /\ \E outcome \in ExecOutcomes :
        LET ret == Unwrap(outcome, Sqlx4kResult_default)
            t == req[r].held
        IN
        IF ret.panic THEN Crash(r, outcome.err)
        ELSE /\ Complete(r, ret.val, outcome)
             /\ req' = Finished(r)
             /\ slots' = SlotPut(r)
             /\ tx' = [tx EXCEPT ![t] = TxAfter(t, outcome)]
             /\ UNCHANGED <<runtime, poolState, callerPc, nextReq, conn,
                            callerTx, dbApplied, tx_id>>
             /\ UNCHANGED Unslotted

Sqlx4k_tx_fetch_all_start(r) ==
    /\ Scheduled(r, "tx_fetch_all")
    /\ SlotTake(r, FALSE)

Sqlx4k_tx_fetch_all(r) ==
    /\ Executing(r, "tx_fetch_all")
    /\ \E outcome \in FetchOutcomes :
        LET ret == sqlx4k_result_of(outcome)
            t == req[r].held
        IN
        IF ret.panic THEN Crash(r, outcome.err)
        ELSE /\ Complete(r, ret.val, outcome)
             /\ req' = Finished(r)
             /\ slots' = SlotPut(r)
             /\ tx' = [tx EXCEPT ![t] = IF outcome.ok THEN tx[t]
                                         ELSE TxAfter(t, outcome)]
             /\ UNCHANGED <<runtime, poolState, callerPc, nextReq, conn,
                            callerTx, dbApplied, tx_id>>
             /\ UNCHANGED Unslotted

SlotCall(r) ==
    \/ sqlx4k_query(r)
    \/ sqlx4k_fetch_all(r)
    \/ sqlx4k_tx_begin(r)
    \/ \E t \in Req :
        \/ sqlx4k_tx_commit(r, t)
        \/ sqlx4k_tx_rollback(r, t)
        \/ sqlx4k_tx_query(r, t)
        \/ sqlx4k_tx_fetch_all(r, t)

SlotTask(r) ==
    \/ Sqlx4k_query_acquire(r)
    \/ Sqlx4k_query(r)
    \/ Sqlx4k_fetch_all_acquire(r)
    \/ Sqlx4k_fetch_all(r)
    \/ Sqlx4k_tx_begin_acquire(r)
    \/ Sqlx4k_tx_begin(r)
    \/ Sqlx4k_tx_commit_start(r)
    \/ Sqlx4k_tx_commit(r)
    \/ Sqlx4k_tx_commit_push(r)
    \/ Sqlx4k_tx_rollback_start(r)
    \/ Sqlx4k_tx_rollback(r)
    \/ Sqlx4k_tx_rollback_push(r)
    \/ Sqlx4k_tx_query_start(r)
    \/ Sqlx4k_tx_query(r)
    \/ Sqlx4k_tx_fetch_all_start(r)
    \/ Sqlx4k_tx_fetch_all(r)

NextSlot ==
    \/ sqlx4k_of_call
    \/ sqlx4k_of_return
    \/ \E r \in 1 .. MaxReq : SlotCall(r)
    \/ \E r \in Req : SlotTask(r)

SpecSlot == InitSlot /\ [][NextSlot]_vars

\* The transaction calls of the slot-table variant alone, with one request
\* more than MaxReq: MaxConn transactions can be open while one of them is
\* being committed and a further tx_begin is on its way.
NextIds ==
    \/ sqlx4k_of_call
    \/ sqlx4k_of_return
    \/ \E r \in Req : sqlx4k_tx_begin(r)
    \/ \E r \in Req : \E t \in Req : sqlx4k_tx_commit(r, t)
    \/ \E r \in Req : \E t \in Req : sqlx4k_tx_rollback(r, t)
    \/ \E r \in Req : Sqlx4k_tx_begin_acquire(r)
    \/ \E r \in Req : Sqlx4k_tx_begin(r)
    \/ \E r \in Req : Sqlx4k_tx_commit_start(r)
    \/ \E r \in Req : Sqlx4k_tx_commit(r)
    \/ \E r \in Req : Sqlx4k_tx_commit_push(r)
    \/ \E r \in Req : Sqlx4k_tx_rollback_start(r)
    \/ \E r \in Req : Sqlx4k_tx_rollback(r)
    \/ \E r \in Req : Sqlx4k_tx_rollback_push(r)

SpecIds == InitSlot /\ [][NextIds]_vars

\* ----------------------------------------------------- ids not held
\* The tx_* calls of the slot-table variant take the id as a plain integer:
\* the caller can pass an id it does not hold, one it was never given or one
\* whose transaction it has already committed or rolled back.
SlotTxOps == {"tx_commit", "tx_rollback", "tx_query", "tx_fetch_all"}

\* A tx_* call made with an id the caller does not hold is outstanding.
UnheldPending ==
    \E q \in Req : req[q].op \in SlotTxOps /\ req[q].target = 0
                   /\ req[q].st \in {"scheduled", "executing", "pushing"}

\* sqlx4k_tx_commit, sqlx4k_tx_rollback, sqlx4k_tx_query or
\* sqlx4k_tx_fetch_all with an id the caller does not hold, made when every
\* earlier call has come back.
sqlx4k_tx_unheld(r, op, id) ==
    /\ CanCall(r)
    /\ \A q \in Req : req[q].st \in {"new", "done"}
    /\ \A t \in Req : callerTx[t] # Ptr(id)
    /\ SpawnIdx(r, op, id, id, 0)
    /\ UNCHANGED callerTx /\ UNCHANGED SlotUnspawned /\ UNCHANGED Unslotted

\* The caller makes no further call while such a call is outstanding.
SlotCallHeld(r) == ~UnheldPending /\ SlotCall(r)

NextUnheld ==
    \/ sqlx4k_of_call
    \/ sqlx4k_of_return
    \/ \E r \in 1 .. MaxReq : SlotCallHeld(r)
    \/ \E r \in Req : \E op \in SlotTxOps : \E id \in Ids :
            sqlx4k_tx_unheld(r, op, id)
    \/ \E r \in Req : SlotTask(r)

SpecUnheld == InitSlot /\ [][NextUnheld]_vars

\* ------------------------------------------------- translator and free
\* The result translator and the free operation of the canonical variant as
\* functions of the driver result: every driver result of the bounded sets
\* below is translated, leaked to the caller and freed by one call.
MaxRows == 2
MaxCols == 2

\* Option<&str> column values: SQL NULL, the empty string, a text.
ColumnValues == {Null, Ptr(""), Ptr("a")}
RowsOf(n, m) == [1 .. n -> [1 .. m -> ColumnValues]]
DriverRows == UNION {RowsOf(n, m) : n \in 0 .. MaxRows, m \in 0 .. MaxCols}

\* A PgNotification: channel and payload.
Channels == {"c1", "c2"}
Notifications == {[channel |-> c, payload |-> y] : c \in Channels, y \in {"", "p1"}}
NoItem == [channel |-> "", payload |-> ""]

\* What the driver hands the translator: the outcome of the operation op, or
\* a notification.
Given(op, outcome, item) ==
    [op |-> op, outcome |-> outcome, item |-> item, variant |-> "postgres"]
Givens ==
    {Given(op, o, NoItem) :
        op \in {"query", "tx_query"},
        o \in {ExecOk(n) : n \in 0 .. MaxAffected}
              \cup {Failed(e) : e \in StatementErrors}}
    \cup {Given(op, o, NoItem) :
        op \in {"fetch_all", "tx_fetch_all", "cn_fetch_all"},
        o \in {FetchOk(rows) : rows \in DriverRows}
              \cup {Failed(e) : e \in StatementErrors}}
    \cup {Given("notify", ExecOk(0), item) : item \in Notifications}

\* A translator that takes the payload for the channel name and the channel
\* name for the payload.
result_of_pg_notification_swapped(item) ==
    [Sqlx4kPostgresResult_default EXCEPT
        !.schema = Ptr([size |-> 1,
                        columns |-> Ptr(<<[ordinal |-> 0,
                                           name |-> Ptr(item.payload),
                                           kind |-> Ptr("TEXT")]>>)]),
        !.size = 1,
        !.rows = Ptr(<<[size |-> 1,
                        columns |-> Ptr(<<[ordinal |-> 0,
                                           value |-> Ptr(item.channel)]>>)]>>)]

\* lines 733-769.
sqlx4k_postgresql_result_of_pg_notification(item) ==
    [Sqlx4kPostgresResult_default EXCEPT
        !.schema = Ptr([size |-> 1,
                        columns |-> Ptr(<<[ordinal |-> 0,
                                           name |-> Ptr(item.channel),
                                           kind |-> Ptr("TEXT")]>>)]),
        !.size = 1,
        !.rows = Ptr(<<[size |-> 1,
                        columns |-> Ptr(<<[ordinal |-> 0,
                                           value |-> Ptr(item.payload)]>>)]>>)]

\* The result the method of operation g.op builds from the driver result.
ResultOf(g) ==
    CASE g.op = "query" -> QueryResult(g.outcome)
      [] g.op = "tx_query" -> WithTx(QueryResult(g.outcome), 1)
      [] g.op \in {"fetch_all", "cn_fetch_all"} ->
            sqlx4k_postgresql_result_of(g.outcome)
      [] g.op = "tx_fetch_all" ->
            WithTx(sqlx4k_postgresql_result_of(g.outcome), 1)
      [] g.op = "notify" ->
            Return(sqlx4k_postgresql_result_of_pg_notification(g.item))

\* Heap allocations are named by their place in the result tree.
RowAllocations(row, r) ==
    IF IsNull(row.columns) THEN {}
    ELSE {<<"columns", r>>}
         \cup {<<"value", r, i>> : i \in {j \in 1 .. row.size :
                                            ~IsNull(row.columns[1][j].value)}}

\* Every allocation made while the result res was built: the record leaked
\* to the caller, each CString::into_raw, each leaked Box and each leaked
\* boxed slice that is not empty (an empty boxed slice owns no memory).
Allocations(res) ==
    {<<"result">>}
    \cup (IF IsNull(res.error_message) THEN {} ELSE {<<"error_message">>})
    \cup (IF IsNull(res.schema) THEN {}
          ELSE {<<"schema">>}
               \cup (IF IsNull(res.schema[1].columns) THEN {}
                     ELSE {<<"schema_columns">>}
                          \cup {<<"name", i>> : i \in 1 .. res.schema[1].size}
                          \cup {<<"kind", i>> : i \in 1 .. res.schema[1].size}))
    \cup (IF IsNull(res.rows) THEN {}
          ELSE (IF res.size > 0 THEN {<<"rows">>} ELSE {})
               \cup UNION {RowAllocations(res.rows[1][r], r) : r \in 1 .. res.size})

\* The translator runs on a driver result and the result is leaked to the
\* caller; on a fatal driver error it panics and there is no result.
Translate ==
    /\ freeing = "none"
    /\ \E g \in Givens :
        LET ret == ResultOf(g) IN
        /\ given' = Ptr(g)
        /\ IF ret.panic
           THEN /\ built' = Null
                /\ released' = released
                /\ freeing' = "panicked"
           ELSE /\ built' = Ptr(ret.val)
                /\ released' = [a \in Allocations(ret.val) |-> 0]
                /\ freeing' = "leaked"
    /\ UNCHANGED <<runtime, poolState, callerPc, conn, req, nextReq, cbCount,
                   last, heap, tx, cn, callerTx, callerCn, dbApplied, crashed,
                   tx_id, slots, listener, inbound, published, notified, nullDeref,
                   Beside>>

\* What a build can make of Vec::from_raw_parts(null, 0, 0) and of
\* CString::from_raw(null), both outside the contract of the function: an
\* empty object that owns nothing, or the termination of the process (the
\* precondition checks of a build with debug assertions).
NullOutcomes == {"empty", "abort"}

\* A walk of free_result: the allocations it released, in order, and whether
\* the process terminated in it.
Walked(ids) == [ids |-> ids, abort |-> FALSE]
FromNull(ub) == [ids |-> <<>>, abort |-> ub = "abort"]
Then(a, b) ==
    IF a.abort THEN a ELSE [ids |-> a.ids \o b.ids, abort |-> b.abort]

RECURSIVE Concat(_)
Concat(ss) == IF ss = <<>> THEN <<>> ELSE Head(ss) \o Concat(Tail(ss))

\* lines 131-138: the schema columns as a Vec, the name and the kind of each
\* dropped, then the Vec.
FreeSchemaColumns(schema, ub) ==
    IF IsNull(schema.columns) THEN FromNull(ub)
    ELSE Walked(Concat([i \in 1 .. schema.size |->
                            << <<"name", i>>, <<"kind", i>> >>])
                \o << <<"schema_columns">> >>)

\* lines 147-154: the columns of row r as a Vec, each value that is not null
\* dropped, then the Vec.
FreeRow(row, r, ub) ==
    IF IsNull(row.columns) THEN FromNull(ub)
    ELSE Walked(Concat([i \in 1 .. row.size |->
                            IF IsNull(row.columns[1][i].value) THEN <<>>
                            ELSE << <<"value", r, i>> >>])
                \o << <<"columns", r>> >>)

\* lines 144-155: the rows as a Vec of `size` rows, row after row, then the
\* Vec, which owns memory only when it is not empty.
RECURSIVE FreeRows(_, _, _, _)
FreeRows(rows, size, r, ub) ==
    IF r > size THEN Walked(IF size > 0 THEN << <<"rows">> >> ELSE <<>>)
    ELSE Then(FreeRow(rows[r], r, ub), FreeRows(rows, size, r + 1, ub))

\* The walk of sqlx4k_postgres_free_result over the result res.
FreeWalk(res, ub) ==
    Then(Walked(<< <<"result">> >>),
    Then(IF res.error >= 0
         THEN (IF IsNull(res.error_message) THEN FromNull(ub)
               ELSE Walked(<< <<"error_message">> >>))
         ELSE Walked(<<>>),
         IF IsNull(res.schema) THEN Walked(<<>>)
         ELSE Then(Walked(<< <<"schema">> >>),
              Then(FreeSchemaColumns(res.schema[1], ub),
                   IF IsNull(res.rows) THEN Walked(<<>>)
                   ELSE FreeRows(res.rows[1], res.size, 1, ub)))))

\* How often the allocation a occurs in the walk.
Count(ids, a) == Cardinality({k \in 1 .. Len(ids) : ids[k] = a})

\* One call of free_result on the result pointer the caller was given.
sqlx4k_postgres_free_result ==
    /\ freeing = "leaked"
    /\ \E ub \in NullOutcomes :
        LET walk == FreeWalk(built[1], ub) IN
        /\ released' = [a \in DOMAIN released \cup {walk.ids[k] : k \in 1 .. Len(walk.ids)} |->
                            Count(walk.ids, a)]
        /\ freeing' = IF walk.abort THEN "aborted" ELSE "freed"
    /\ UNCHANGED <<given, built>>
    /\ UNCHANGED <<runtime, poolState, callerPc, conn, req, nextReq, cbCount,
                   last, heap, tx, cn, callerTx, callerCn, dbApplied, crashed,
                   tx_id, slots, listener, inbound, published, notified, nullDeref,
                   Beside>>

NextTranslate ==
    \/ Translate
    \/ sqlx4k_postgres_free_result

SpecTranslate == Init /\ [][NextTranslate]_vars

\* ------------------------------------- freeing a result that holds a handle
\* sqlx4k_postgres_free_result on the result the caller received last, while
\* the pool, the connections and the transactions are live.  The walk reads
\* error, error_message, schema, size and rows of the result and none of rt,
\* cn and tx: the boxes behind the handles are not reclaimed.  Where the walk
\* builds a vector from a null pointer the behaviour is undefined, and an
\* aborting build ends the process.
sqlx4k_postgres_free_result_held ==
    /\ ~crashed
    /\ callerPc = "ready"
    /\ freeing = "none"
    /\ ~last.panicked
    /\ last.called \/ last.op = "of"
    /\ \E ub \in NullOutcomes :
        LET walk == FreeWalk(last.result, ub) IN
        IF walk.abort
        THEN Panic(0, "free_result", NULL, NoErr)
        ELSE /\ built' = Ptr(last.result)
             /\ released' = [a \in Allocations(last.result)
                                   \cup {walk.ids[k] : k \in 1 .. Len(walk.ids)} |->
                                 Count(walk.ids, a)]
             /\ freeing' = "freed"
             /\ UNCHANGED <<runtime, poolState, callerPc, conn, req, nextReq,
                            cbCount, last, heap, tx, cn, callerTx, callerCn,
                            dbApplied, crashed, tx_id, slots, given, listener,
                            inbound, published, notified, nullDeref, Beside>>

NextFree ==
    \/ Next
    \/ sqlx4k_postgres_free_result_held

SpecFree == Init /\ [][NextFree]_vars

\* ------------------------------------------- row marshalers of the variants
\* src/sqlx4k/rust_lib/src/lib.rs: the typed flat form of sqlx4k_row_of and
\* sqlx4k_value_of under a result whose default error is OK.
Sqlx4kResult_typed_default ==
    [error |-> OK, error_message |-> Null, tx |-> Null, size |-> 0, rows |-> Null]

\* lines 479-517.
sqlx4k_error_result_of(err) ==
    CASE err.kind = "Database" ->
            Return([Sqlx4kResult_typed_default EXCEPT
                !.error = ERROR_DATABASE, !.error_message = Ptr(SlotMessage(err))])
      [] err.kind = "PoolTimedOut" ->
            Return([Sqlx4kResult_typed_default EXCEPT
                !.error = ERROR_POOL_TIMED_OUT,
                !.error_message = Ptr(SlotMessage(err))])
      [] err.kind = "PoolClosed" ->
            Return([Sqlx4kResult_typed_default EXCEPT
                !.error = ERROR_POOL_CLOSED,
                !.error_message = Ptr(SlotMessage(err))])
      [] err.kind = "WorkerCrashed" ->
            Return([Sqlx4kResult_typed_default EXCEPT
                !.error = ERROR_WORKER_CRASHED,
                !.error_message = Ptr(SlotMessage(err))])
      [] OTHER -> Panics

\* lines 455-477, given the marshaled rows.
RowsResult(result, marshaled) ==
    IF result.ok
    THEN IF \E i \in DOMAIN marshaled : marshaled[i].panic
         THEN Panics
         ELSE Return([Sqlx4kResult_typed_default EXCEPT
                !.size = Len(result.rows),
                !.rows = Ptr([i \in DOMAIN marshaled |-> marshaled[i].val])])
    ELSE sqlx4k_error_result_of(result.err)

sqlx4k_typed_result_of(result) ==
    RowsResult(result, [i \in 1 .. Len(result.rows) |->
                            sqlx4k_row_of(result.rows[i])])

\* src/sqlx4k-sqlite/rust_lib/src/lib.rs: the column is read as a &str, a
\* type that has no NULL. What the driver decodes a NULL to is its own
\* matter: the text of zero bytes, or a decode error that get_unchecked
\* unwraps.
NullTexts == {"empty", "error"}

sqlx4k_sqlite_row_of(row, d) ==
    IF Len(row) = 0 THEN Return([size |-> 0, columns |-> Null])
    ELSE IF d = "error" /\ \E i \in 1 .. Len(row) : IsNull(row[i]) THEN Panics
    ELSE Return([size |-> Len(row),
                 columns |-> Ptr([i \in 1 .. Len(row) |->
                    [ordinal |-> i - 1, name |-> Ptr("c"), kind |-> Ptr("TEXT"),
                     value |-> IF IsNull(row[i]) THEN Ptr("") ELSE row[i]]])])

sqlx4k_sqlite_result_of(result, d) ==
    RowsResult(result, [i \in 1 .. Len(result.rows) |->
                            sqlx4k_sqlite_row_of(result.rows[i], d)])

\* src/sqlx4k/rust_lib/src/lib.rs, lines 415-453: the notification in the
\* typed flat form, its payload copied byte by byte.
TYPE_TEXT == 9
sqlx4k_result_of_pg_notification(item) ==
    [Sqlx4kResult_typed_default EXCEPT
        !.size = 1,
        !.rows = Ptr(<<[size |-> 1,
                        columns |-> Ptr(<<[ordinal |-> 0,
                                           name |-> Ptr(item.channel),
                                           kind |-> TYPE_TEXT,
                                           size |-> Len(item.payload),
                                           value |-> Ptr(item.payload)]>>)]>>)]

Marshalers == {"typed", "sqlite"}

\* A fetch_all of one of these variants: the driver result is translated and
\* the result is handed to the caller.
TranslateRows ==
    /\ freeing = "none"
    /\ \E v \in Marshalers, d \in NullTexts,
          o \in {FetchOk(rows) : rows \in DriverRows}
                \cup {Failed(e) : e \in StatementErrors} :
        LET ret == IF v = "typed" THEN sqlx4k_typed_result_of(o)
                   ELSE sqlx4k_sqlite_result_of(o, d) IN
        /\ given' = Ptr([Given("fetch_all", o, NoItem) EXCEPT !.variant = v])
        /\ built' = IF ret.panic THEN Null ELSE Ptr(ret.val)
        /\ freeing' = IF ret.panic THEN "panicked" ELSE "kept"
    /\ UNCHANGED <<runtime, poolState, callerPc, conn, req, nextReq, cbCount,
                   last, heap, tx, cn, callerTx, callerCn, dbApplied, crashed,
                   tx_id, slots, released, listener, inbound, published, notified,
                   nullDeref,
                   Beside>>

\* src/sqlx4k/rust_lib/src/lib.rs, lines 556-593: sqlx4k_value_of on a raw
\* value of any type and wire format. A text is the sequence of its
\* characters; "U+00E9" is a character of two bytes in UTF-8.
SupportedTypes ==
    {"BOOL", "INT2", "INT4", "INT8", "FLOAT4", "FLOAT8", "NUMERIC", "CHAR",
     "VARCHAR", "TEXT", "TIMESTAMP", "TIMESTAMPTZ", "DATE", "TIME", "BYTEA",
     "UUID", "JSON", "JSONB"}
OtherTypes == {"OID", "INT4[]", "VOID"}
Formats == {"Text", "Binary"}
Chars == {"a", "U+00E9"}
MaxChars == 2
RawTexts == {Null} \cup {Ptr(t) : t \in UNION {[1 .. n -> Chars] : n \in 0 .. MaxChars}}
RawValues ==
    {[name |-> n, format |-> f, text |-> t] :
        n \in SupportedTypes \cup OtherTypes, f \in Formats, t \in RawTexts}

\* lines 558-578: the tag of a type name (the TYPE_* constants, lines 21-38).
TypeTag(name) ==
    CASE name = "BOOL" -> 0
      [] name = "INT2" -> 1
      [] name = "INT4" -> 2
      [] name = "INT8" -> 3
      [] name = "FLOAT4" -> 4
      [] name = "FLOAT8" -> 5
      [] name = "NUMERIC" -> 6
      [] name = "CHAR" -> 7
      [] name = "VARCHAR" -> 8
      [] name = "TEXT" -> TYPE_TEXT
      [] name = "TIMESTAMP" -> 10
      [] name = "TIMESTAMPTZ" -> 11
      [] name = "DATE" -> 12
      [] name = "TIME" -> 13
      [] name = "BYTEA" -> 14
      [] name = "UUID" -> 15
      [] name = "JSON" -> 16
      [] name = "JSONB" -> 17

\* The number of characters of a text.
CharLen(text) == Len(text)
\* line 586: bytes.len() of as_str().as_bytes().
RECURSIVE ByteLen(_)
ByteLen(text) ==
    IF text = <<>> THEN 0
    ELSE (IF Head(text) = "a" THEN 1 ELSE 2) + ByteLen(Tail(text))

sqlx4k_value_of_raw(value) ==
    IF value.name \notin SupportedTypes THEN Panics
    ELSE IF value.format = "Binary" THEN Panics
    ELSE IF IsNull(value.text) THEN Panics
    ELSE Return([kind |-> TypeTag(value.name),
                 size |-> ByteLen(value.text[1]),
                 value |-> value.text])

\* lines 527-528 of sqlx4k_row_of: a column of a fetched row is marshaled.
TranslateValue ==
    /\ freeing = "none"
    /\ \E v \in RawValues :
        LET ret == sqlx4k_value_of_raw(v) IN
        /\ given' = Ptr([Given("value", ExecOk(0), v) EXCEPT !.variant = "typed"])
        /\ built' = IF ret.panic THEN Null ELSE Ptr(ret.val)
        /\ freeing' = IF ret.panic THEN "panicked" ELSE "kept"
    /\ UNCHANGED <<runtime, poolState, callerPc, conn, req, nextReq, cbCount,
                   last, heap, tx, cn, callerTx, callerCn, dbApplied, crashed,
                   tx_id, slots, released, listener, inbound, published, notified,
                   nullDeref, Beside>>

\* A notification of the typed variant is translated and the result is
\* handed to the notify callback.
TranslateNotification ==
    /\ freeing = "none"
    /\ \E item \in Notifications :
        /\ given' = Ptr([Given("notify", ExecOk(0), item) EXCEPT !.variant = "typed"])
        /\ built' = Ptr(sqlx4k_result_of_pg_notification(item))
        /\ freeing' = "kept"
    /\ UNCHANGED <<runtime, poolState, callerPc, conn, req, nextReq, cbCount,
                   last, heap, tx, cn, callerTx, callerCn, dbApplied, crashed,
                   tx_id, slots, released, listener, inbound, published, notified,
                   nullDeref,
                   Beside>>

NextMarshal ==
    \/ Translate
    \/ TranslateRows
    \/ TranslateNotification
    \/ TranslateValue

SpecMarshal == Init /\ [][NextMarshal]_vars

\* ---------------------------------------------------------------- listen
\* sqlx4k_postgresql_listen, lines 688-731. One listen call is followed: its
\* task, the notifications that arrive on its connection (inbound) and the
\* calls of its notify callback (notified).
MaxNotes == 2

\* The entry point copies its arguments, spawns the task and returns.
sqlx4k_postgresql_listen(chs) ==
    /\ ~crashed /\ callerPc = "ready" /\ poolState # "none"
    /\ listener.st = "none"
    /\ listener' = [NoListener EXCEPT !.st = "spawned", !.id = 1, !.channels = chs]
    /\ UNCHANGED <<runtime, poolState, callerPc, conn, req, nextReq, cbCount,
                   last, heap, tx, cn, callerTx, callerCn, dbApplied, crashed,
                   tx_id, slots, given, built, released, freeing, inbound,
                   published, notified, nullDeref,
                   Beside>>

ListenFrame ==
    <<runtime, poolState, callerPc, conn, req, nextReq, cbCount, heap, tx, cn,
      callerTx, callerCn, dbApplied, tx_id, slots, given, built, released,
      freeing, nullDeref,
      Beside>>

\* `.await.unwrap()` on a driver call of the listen task: a panic in the
\* task, whatever the error.
ListenUnwrap(err) == Panic(0, "listen", NULL, err)

\* Errors of the driver calls the listen task makes: those of a connect, and
\* those of a statement.
ListenErrors == DatabaseErrors \cup {Err("PoolTimedOut", NoCode)} \cup RequestFatalErrors

\* lines 704-710: the pool of the listener is connected.
Listen_connect_with ==
    /\ ~crashed /\ listener.st = "spawned"
    /\ \E outcome \in {ExecOk(0)} \cup {Failed(e) : e \in ListenErrors} :
        IF outcome.ok
        THEN /\ listener' = [listener EXCEPT !.st = "pooled"]
             /\ UNCHANGED <<last, crashed, inbound, published, notified>>
             /\ UNCHANGED ListenFrame
        ELSE ListenUnwrap(outcome.err)

\* A canonical listener that takes its connection from the main pool.
Listen_PgListener_connect_with_shared ==
    /\ ~crashed /\ listener.st = "pooled"
    /\ poolState = "open" /\ IdleConns # {}
    /\ listener' = [listener EXCEPT !.st = "attached", !.up = TRUE]
    /\ conn' = [conn EXCEPT ![PickIdle] = "out"]
    /\ UNCHANGED <<runtime, poolState, callerPc, req, nextReq, cbCount, last,
                   heap, tx, cn, callerTx, callerCn, dbApplied, crashed, tx_id,
                   slots, given, built, released, freeing, inbound, published,
                   notified, nullDeref, Beside>>

\* line 712: PgListener::connect_with(&pool) takes a connection of that pool.
Listen_PgListener_connect_with ==
    /\ ~crashed /\ listener.st = "pooled"
    /\ \E outcome \in {ExecOk(0)} \cup {Failed(e) : e \in ListenErrors} :
        IF outcome.ok
        THEN /\ listener' = [listener EXCEPT !.st = "attached", !.up = TRUE]
             /\ UNCHANGED <<last, crashed, inbound, published, notified>>
             /\ UNCHANGED ListenFrame
        ELSE ListenUnwrap(outcome.err)

\* A listener that subscribes to every channel there is.
listen_all_every(channels) == Channels
\* line 717: listen_all(channels) issues one LISTEN for each channel named.
listen_all(channels) == channels

\* lines 716-721: listen_all subscribes to every channel, then the ready
\* callback is called with the default result.
Listen_listen_all ==
    /\ ~crashed /\ listener.st = "attached"
    /\ \E outcome \in {ExecOk(0)} \cup {Failed(e) : e \in ListenErrors} :
        IF outcome.ok
        THEN /\ listener' = [listener EXCEPT !.st = "ready",
                                !.subscribed = listen_all(listener.channels),
                                !.ready = @ + 1]
             /\ last' = [NoLast EXCEPT !.op = "listen", !.called = TRUE]
             /\ UNCHANGED <<crashed, inbound, published, notified>>
             /\ UNCHANGED ListenFrame
        ELSE ListenUnwrap(outcome.err)

\* lines 723-728: try_recv returns the next notification it has and the
\* notify callback is called with its result; or the connection is lost,
\* try_recv connects and subscribes again and returns None; or it returns an
\* error.
Listen_try_recv ==
    /\ ~crashed /\ listener.st = "ready"
    /\ IF Len(notified) < Len(inbound)
       THEN /\ notified' = Append(notified,
                    [id |-> listener.id,
                     result |-> sqlx4k_postgresql_result_of_pg_notification(
                                    inbound[Len(notified) + 1])])
            /\ UNCHANGED <<listener, last, crashed, inbound, published>>
            /\ UNCHANGED ListenFrame
       ELSE /\ ~listener.up
            /\ \E outcome \in {ExecOk(0)} \cup {Failed(e) : e \in ListenErrors} :
                IF outcome.ok
                THEN /\ listener' = [listener EXCEPT !.up = TRUE]
                     /\ UNCHANGED <<last, crashed, inbound, published, notified>>
                     /\ UNCHANGED ListenFrame
                ELSE ListenUnwrap(outcome.err)

\* Another session publishes item: the server sends it to the connection of
\* the listener if that connection is up and subscribed to the channel.
Publish(item) ==
    /\ ~crashed
    /\ Len(published) < MaxNotes
    /\ published' = Append(published, item)
    /\ inbound' = IF listener.up /\ item.channel \in listener.subscribed
                  THEN Append(inbound, item) ELSE inbound
    /\ UNCHANGED <<listener, last, crashed, notified>>
    /\ UNCHANGED ListenFrame

\* The connection of the listener breaks.
ConnectionLost ==
    /\ ~crashed /\ listener.st = "ready" /\ listener.up
    /\ listener' = [listener EXCEPT !.up = FALSE]
    /\ UNCHANGED <<last, crashed, inbound, published, notified>>
    /\ UNCHANGED ListenFrame

ListenTask ==
    \/ Listen_connect_with
    \/ Listen_PgListener_connect_with
    \/ Listen_listen_all
    \/ Listen_try_recv

NextListen ==
    \/ sqlx4k_postgresql_of_call
    \/ sqlx4k_postgresql_of_return
    \/ \E chs \in (SUBSET Channels) \ {{}} : sqlx4k_postgresql_listen(chs)
    \/ ListenTask
    \/ \E item \in Notifications : Publish(item)
    \/ ConnectionLost

\* The scheduler runs the listen task whenever it can take a step.
SpecListen == Init /\ [][NextListen]_vars /\ WF_vars(ListenTask)

\* ------------------------------------------------- listen and the main pool
\* sqlx4k_listen of src/sqlx4k-postgres/rust_lib (lines 319-348; the typed
\* variant, src/sqlx4k/rust_lib lines 355-384, connects the same way): the
\* listener is made on the pool of the registry itself.
sqlx4k_listen(chs) ==
    /\ ~crashed /\ callerPc = "ready" /\ poolState # "none"
    /\ listener.st = "none"
    /\ listener' = [NoListener EXCEPT !.st = "called", !.id = 1, !.channels = chs]
    /\ UNCHANGED <<runtime, poolState, callerPc, conn, req, nextReq, cbCount,
                   last, heap, tx, cn, callerTx, callerCn, dbApplied, crashed,
                   tx_id, slots, given, built, released, freeing, inbound,
                   published, notified, nullDeref,
                   Beside>>

\* What every step of a listen task leaves alone besides the pool's
\* connections.
ListenPoolFrame ==
    <<runtime, poolState, callerPc, req, nextReq, cbCount, heap, tx, cn,
      callerTx, callerCn, dbApplied, tx_id, slots, given, built, released,
      freeing, nullDeref,
      Beside>>

\* line 331: PgListener::connect_with(&sqlx4k.pool) acquires a connection of
\* the main pool, which the listener keeps; the acquire fails like any other
\* when the pool is closed or has no idle connection.
Listen_PgListener_connect_with_main ==
    /\ ~crashed /\ listener.st = "called"
    /\ \E outcome \in {ExecOk(0)} \cup {Failed(e) : e \in AcquireErrors} :
        /\ outcome.ok => poolState = "open" /\ IdleConns # {}
        /\ IF outcome.ok
           THEN /\ listener' = [listener EXCEPT !.st = "attached", !.up = TRUE,
                                                !.main = PickIdle]
                /\ conn' = [conn EXCEPT ![PickIdle] = "out"]
                /\ UNCHANGED <<last, crashed, inbound, published, notified>>
                /\ UNCHANGED ListenPoolFrame
           ELSE ListenUnwrap(outcome.err)

\* line 341: try_recv of a listener made on the main pool after that pool
\* was closed: the driver may end the wait with an error, which is unwrapped.
Listen_try_recv_closed ==
    /\ ~crashed /\ listener.st = "ready" /\ listener.main # 0
    /\ poolState = "closed"
    /\ ListenUnwrap(Err("PoolClosed", NoCode))

\* One listen call of either variant beside requests routed through the main
\* pool: statements, pooled connections and close.
NextTogether ==
    \/ sqlx4k_postgresql_of_call
    \/ sqlx4k_postgresql_of_return
    \/ sqlx4k_postgresql_listen(Channels)
    \/ sqlx4k_listen(Channels)
    \/ ListenTask
    \/ Listen_PgListener_connect_with_main
    \/ Listen_try_recv_closed
    \/ Publish([channel |-> "c1", payload |-> "p1"])
    \/ ConnectionLost
    \/ \E r \in 1 .. MaxReq :
        \/ sqlx4k_postgresql_query(r)
        \/ sqlx4k_postgresql_close(r)
        \/ sqlx4k_postgresql_cn_acquire(r)
        \/ \E c \in Req : sqlx4k_postgresql_cn_release(r, c)
    \/ \E r \in Req :
        \/ Sqlx4kPostgreSql_query_acquire(r)
        \/ Sqlx4kPostgreSql_query(r)
        \/ Sqlx4kPostgreSql_close_start(r)
        \/ Sqlx4kPostgreSql_close(r)
        \/ Sqlx4kPostgreSql_cn_acquire(r)
        \/ Sqlx4kPostgreSql_cn_release(r)

SpecTogether == Init /\ [][NextTogether]_vars

\* -------------------------------------------------------------- properties
\* The callback of request r is invoked in this step.
CalledBack(r) == cbCount'[r] # cbCount[r]

\* Some heap cell holds transaction t.
Boxed(h, t) == \E a \in Addr : h[a] = [kind |-> "tx", id |-> t]

TxStatementOps == {"tx_query", "tx_fetch_all"}
TxClosingOps == {"tx_commit", "tx_rollback"}

\* C1 (as amended): the callback of a request is invoked at most once, by
\* the step that ends the request's work and with the request's own token;
\* a request leaves flight only by its callback or by the termination of the
\* process (there is no cancel); when the work ends in a fatal driver error
\* the callback is not invoked at all.
C1_CallbackAtMostOnceAfterWork ==
    [][\A r \in Req :
        /\ CalledBack(r) =>
            /\ cbCount[r] = 0 /\ cbCount'[r] = 1
            /\ InFlight(r) /\ req'[r].st = "done"
            /\ last'.called /\ last'.req = r /\ last'.token = TokenOf(r)
            /\ last'.err.kind \notin Fatal
        /\ (InFlight(r) /\ req'[r].st \notin {"scheduled", "executing"}) =>
            \/ CalledBack(r)
            \/ crashed' /\ last'.panicked /\ last'.err.kind \in Fatal
      ]_vars

\* C1 witness: one callback has fired, with its token, while another request
\* is still in flight.
C1_Witness ==
    /\ last.called /\ cbCount[last.req] = 1 /\ last.token = TokenOf(last.req)
    /\ \E q \in Req : InFlight(q)

\* C1 as stated: every request that was submitted and is no longer in flight
\* has had its callback invoked exactly once, never zero times.
C1_ExactlyOnce ==
    \A r \in Req : (r < nextReq /\ ~InFlight(r)) => cbCount[r] = 1

\* C2: the caller is held only inside initialization, never by a
\* request-shaped entry point: while the pool exists and the process lives
\* the caller is ready, and a further request can be submitted whatever is in
\* flight and however many connections are checked out.
C2_EntryPointsDoNotBlock ==
    /\ callerPc # "ready" => (callerPc = "in_of" /\ poolState = "none" /\ Quiet)
    /\ (~crashed /\ poolState # "none" /\ nextReq \in Req) =>
            ENABLED sqlx4k_postgresql_fetch_all(nextReq)

\* C2 witness: every pool connection is checked out, one request executes,
\* another waits for a connection, and the caller has control to submit
\* the next.
C2_Witness ==
    /\ OutConns = Conns
    /\ \E q \in Req : req[q].st = "scheduled" /\ req[q].op = "fetch_all"
    /\ \E q \in Req : req[q].st = "executing"
    /\ callerPc = "ready" /\ nextReq \in Req

\* C3: a transaction changes state only NotStarted -> Open, by the callback
\* of a successful tx_begin or cn_tx_begin that carries its handle, and
\* Open -> Closed, by the callback of a commit or rollback on it, whose result
\* carries no transaction handle and after which no box holds the
\* transaction; a Closed transaction never changes again.
C3_TxLifecycle ==
    [][crashed' \/ \A t \in Req :
        /\ tx'[t].state # tx[t].state =>
            \/ /\ tx[t].state = "NotStarted" /\ tx'[t].state = "Open"
               /\ CalledBack(t) /\ last'.op \in {"tx_begin", "cn_tx_begin"}
               /\ last'.result.error = OK /\ last'.result.tx # NULL
               /\ heap'[last'.result.tx] = [kind |-> "tx", id |-> t]
            \/ /\ tx[t].state = "Open" /\ tx'[t].state = "Closed"
               /\ last'.called /\ last'.target = t
               /\ last'.op \in TxClosingOps
               /\ last'.op = "tx_" \o tx'[t].closedBy
               /\ last'.result.tx = NULL
               /\ ~Boxed(heap', t)
               /\ callerTx'[t] = NULL
        /\ tx[t].state = "Closed" => (tx'[t] = tx[t] /\ ~Boxed(heap', t))
      ]_vars

\* C3 witness: a transaction that was queried and then closed by a rollback.
C3_Witness ==
    \E t \in Req :
        /\ tx[t].state = "Closed" /\ tx[t].closedBy = "rollback"
        /\ tx[t].issued > 0
        /\ last.op = "tx_rollback" /\ last.target = t

\* C4 (as amended): when a tx_query or tx_fetch_all completes, the
\* transaction is open and owned by exactly one box, at the handle the
\* result carries; that handle is what the caller holds for the next call,
\* and it need not be the address that was passed in.
C4_TxOwnedAtResultHandle ==
    [][\A r \in Req : (CalledBack(r) /\ req[r].op \in TxStatementOps) =>
        /\ last'.result.tx # NULL
        /\ heap'[last'.result.tx] = [kind |-> "tx", id |-> req[r].target]
        /\ \A a \in Addr \ {last'.result.tx} :
                heap'[a] # [kind |-> "tx", id |-> req[r].target]
        /\ callerTx'[req[r].target] = last'.result.tx
        /\ tx'[req[r].target].state = "Open"
      ]_vars

\* C4 witness: a tx_query has completed and its result carries a handle
\* other than the one passed in, where the transaction now lives.
C4_Witness ==
    /\ last.called /\ last.op = "tx_query"
    /\ last.result.tx # NULL /\ last.result.tx # last.arg
    /\ heap[last.result.tx] = [kind |-> "tx", id |-> last.target]
    /\ heap[last.arg].kind = "free"

\* C4 as stated: when a tx_query or tx_fetch_all on handle h completes, the
\* handle in the result is h and the transaction is owned at h again.
C4_SameHandleAddress ==
    [][\A r \in Req : (CalledBack(r) /\ req[r].op \in TxStatementOps) =>
        /\ last'.result.tx = req[r].arg
        /\ heap'[req[r].arg] = [kind |-> "tx", id |-> req[r].target]
      ]_vars

\* C5: a sequential caller's transaction shows nothing while it is open;
\* closed by a successful commit after N successful statements it shows all
\* N; closed by a rollback it shows none; and closed in any way it never
\* shows some of its statements but not all.
C5_AllOrNothing ==
    \A t \in Req :
        /\ tx[t].state = "Open" => dbApplied[t] = 0
        /\ tx[t].state = "Closed" =>
            /\ dbApplied[t] \in {0, tx[t].issued}
            /\ tx[t].closedBy = "rollback" => dbApplied[t] = 0
            /\ (tx[t].closedBy = "commit" /\ tx[t].closedOk /\ ~tx[t].failed) =>
                    dbApplied[t] = tx[t].issued

\* C5 witness: two statements ran in a transaction, one after the other,
\* and its commit made both visible.
C5_Witness ==
    \E t \in Req :
        /\ tx[t].state = "Closed" /\ tx[t].closedBy = "commit"
        /\ tx[t].issued = 2 /\ dbApplied[t] = 2

\* C6: when tx_begin fails with a recoverable driver error, the callback is
\* invoked with an error result that carries no transaction handle, and the
\* transaction stays NotStarted with no box allocated for it.
C6_BeginFailureDelivered ==
    (last.op = "tx_begin" /\ last.err.kind \in Recoverable) =>
        /\ last.called /\ ~last.panicked /\ ~crashed
        /\ ~IsNull(last.result.error_message)
        /\ last.result.tx = NULL
        /\ tx[last.req].state = "NotStarted"
        /\ ~Boxed(heap, last.req)

\* C7: when tx_commit or tx_rollback fails with a recoverable driver error,
\* the callback is invoked with the error in a result that carries no
\* transaction handle, and the transaction is Closed and destroyed.
C7_CloseFailureDelivered ==
    (last.op \in TxClosingOps /\ last.err.kind \in Recoverable) =>
        /\ last.called /\ ~last.panicked /\ ~crashed
        /\ ~IsNull(last.result.error_message)
        /\ last.result.tx = NULL
        /\ tx[last.target].state = "Closed"
        /\ ~Boxed(heap, last.target)

\* The code the claimed mapping gives a driver outcome.
CodeOf(kind) ==
    CASE kind = "None" -> OK
      [] kind = "Database" -> ERROR_DATABASE
      [] kind = "PoolTimedOut" -> ERROR_POOL_TIMED_OUT
      [] kind = "PoolClosed" -> ERROR_POOL_CLOSED
      [] kind = "WorkerCrashed" -> ERROR_WORKER_CRASHED
      [] OTHER -> -2

\* C8: every result delivered has its code in {-1, 0, 1, 2, 3}, the code is
\* the one the mapping gives the driver outcome (OK -1, Database 0,
\* PoolTimedOut 1, PoolClosed 2, WorkerCrashed 3), and no other driver error
\* category is turned into a result.
C8_ErrorCodes ==
    /\ last.called =>
        /\ last.result.error \in {OK, ERROR_DATABASE, ERROR_POOL_TIMED_OUT,
                                  ERROR_POOL_CLOSED, ERROR_WORKER_CRASHED}
        /\ last.result.error = CodeOf(last.err.kind)
    /\ last.err.kind \in Fatal => ~last.called

\* C9: a driver error outside the four outward categories terminates the
\* process: the step that meets it constructs no result and invokes no
\* callback, it leaves no request in flight, and in a terminated process no
\* step (so no callback of another or a later request) is possible.
C9_FatalErrorTerminates ==
    /\ [](/\ last.err.kind \in Fatal =>
                (crashed /\ last.panicked /\ ~last.called)
          /\ crashed => (Quiet /\ ~ENABLED Next))
    /\ [][(last' # last /\ last'.err.kind \in Fatal) =>
            (crashed' /\ cbCount' = cbCount)]_vars

\* C9 witness: the process has terminated on an IO error of one request
\* while another submitted request had not had its callback.
C9_Witness ==
    /\ crashed /\ last.panicked /\ last.err.kind = "Io" /\ last.req # 0
    /\ nextReq = 3 /\ cbCount[1] = 0 /\ cbCount[2] = 0

\* C10: in every result produced, the code is OK exactly when the message is
\* null; a result with an error code has a message, no schema, no rows,
\* size 0, rows_affected 0 and no registry or connection handle, and carries
\* a transaction handle only when tx_query or tx_fetch_all produced it.
C10_ErrorResultShape ==
    ~last.panicked =>
        /\ (last.result.error = OK) <=> IsNull(last.result.error_message)
        /\ (last.result.error # OK) <=> (last.err.kind \in Recoverable)
        /\ last.result.error # OK =>
            /\ ~IsNull(last.result.error_message)
            /\ IsNull(last.result.schema) /\ IsNull(last.result.rows)
            /\ last.result.size = 0 /\ last.result.rows_affected = 0
            /\ last.result.rt = NULL /\ last.result.cn = NULL
            /\ last.result.tx # NULL => last.op \in TxStatementOps

\* C10 witness: a tx_query failed with a database error and its result has
\* the message and the transaction handle.
C10_Witness ==
    /\ last.called /\ last.op = "tx_query"
    /\ last.result.error = ERROR_DATABASE
    /\ ~IsNull(last.result.error_message) /\ last.result.tx # NULL

\* C11: after the one free_result call on a result, every allocation made
\* while the result was built (the result record, the error message, the
\* schema record, the schema column array with its names and type names, the
\* row array, the column arrays, the column values) has been released exactly
\* once and nothing else has been released.
C11_FreeReleasesEverythingOnce ==
    freeing \in {"freed", "aborted"} =>
        /\ DOMAIN released = Allocations(built[1])
        /\ \A a \in DOMAIN released : released[a] = 1

FetchOps == {"fetch_all", "tx_fetch_all", "cn_fetch_all"}

\* The column entries behind a columns pointer: none behind a null pointer.
Entries(columns) == IF IsNull(columns) THEN <<>> ELSE columns[1]

\* C12: the result of a successful fetch_all, tx_fetch_all or cn_fetch_all
\* that returned N rows of M columns is OK with size N; its schema has
\* exactly M entries, every row has exactly M column entries, and the entry
\* at position i of the schema and of every row has ordinal i, counted from
\* 0; with N = 0 the size is 0 and the schema has no entries.
C12_FetchShape ==
    (~IsNull(built) /\ given[1].op \in FetchOps /\ given[1].outcome.ok) =>
        LET rows == given[1].outcome.rows
            N == Len(rows)
            M == IF N = 0 THEN 0 ELSE Len(rows[1])
            res == built[1]
        IN
        /\ res.error = OK /\ IsNull(res.error_message)
        /\ res.size = N
        /\ ~IsNull(res.schema) /\ res.schema[1].size = M
        /\ Len(Entries(res.schema[1].columns)) = M
        /\ \A i \in 1 .. M : Entries(res.schema[1].columns)[i].ordinal = i - 1
        /\ ~IsNull(res.rows) /\ Len(res.rows[1]) = N
        /\ \A r \in 1 .. N :
            /\ res.rows[1][r].size = M
            /\ Len(Entries(res.rows[1][r].columns)) = M
            /\ \A i \in 1 .. M :
                /\ Entries(res.rows[1][r].columns)[i].ordinal = i - 1
                /\ Entries(res.rows[1][r].columns)[i].value = rows[r][i]

\* C12 witness: a tx_fetch_all returned two rows of two columns, with a NULL
\* in the second row, and the result was built.
C12_Witness ==
    /\ ~IsNull(built) /\ given[1].op = "tx_fetch_all" /\ given[1].outcome.ok
    /\ built[1].size = 2 /\ built[1].schema[1].size = 2
    /\ IsNull(built[1].rows[1][2].columns[1][2].value)
    /\ built[1].rows[1][2].columns[1][2].ordinal = 1

\* C13: in every variant of the value marshaler a successful fetch whose rows
\* hold a NULL column completes with an OK result whose value slot for that
\* column is null, an empty-string column gives a value that is not null and
\* has length zero, and no such fetch fails.
C13_NullDistinctFromEmpty ==
    (~IsNull(given) /\ given[1].op \in FetchOps /\ given[1].outcome.ok) =>
        /\ freeing # "panicked"
        /\ ~IsNull(built)
        /\ built[1].error = OK
        /\ \A r \in 1 .. Len(given[1].outcome.rows) :
            \A i \in 1 .. Len(given[1].outcome.rows[r]) :
                LET v == given[1].outcome.rows[r][i]
                    col == Entries(built[1].rows[1][r].columns)[i]
                IN  /\ IsNull(v) <=> IsNull(col.value)
                    /\ v = Ptr("") => (~IsNull(col.value) /\ col.value[1] = "")

ExecuteOps == {"query", "cn_query", "tx_query"}
\* C14: rows_affected of a result is the count the driver reported when the
\* result is the OK result of query, cn_query or tx_query, and 0 in every
\* other result: fetches, begin, commit, rollback, acquire, release, close,
\* initialization, notifications and every error result.
C14_RowsAffected ==
    /\ (last.called \/ last.op = "of") =>
            last.result.rows_affected =
                IF last.op \in ExecuteOps /\ last.result.error = OK
                THEN last.n ELSE 0
    /\ \A k \in 1 .. Len(notified) : notified[k].result.rows_affected = 0

C14_Witness ==
    /\ last.called /\ last.op = "tx_query" /\ last.result.error = OK
    /\ last.n = MaxAffected /\ last.result.rows_affected = MaxAffected

Running(op) == {r \in Req : req[r].op = op /\ req[r].st = "executing"}
PoolErrors == {ERROR_POOL_TIMED_OUT, ERROR_POOL_CLOSED}
\* C15: with max_connections connections all checked out, a fetch_all that
\* waits for a connection until the acquire timeout passes ends in its
\* callback with POOL_TIMED_OUT; a fetch_all that got a connection ends in
\* its callback with the result of its statement and gives the connection
\* back; the callbacks are made once; and a fetch_all in flight can always
\* take a step.
C15_PoolExhaustion ==
    /\ [](\A r \in Req :
            (~crashed /\ InFlight(r) /\ req[r].op = "fetch_all") =>
                ENABLED (Sqlx4kPostgreSql_fetch_all_acquire(r)
                         \/ Sqlx4kPostgreSql_fetch_all(r)))
    /\ [][\A r \in Req :
            (req[r].op = "fetch_all" /\ InFlight(r) /\ ~InFlight(r)' /\ ~crashed') =>
                /\ cbCount'[r] = cbCount[r] + 1
                /\ last'.req = r /\ last'.called
                /\ (req[r].st = "scheduled" /\ poolState = "open") =>
                        /\ IdleConns = {}
                        /\ last'.result.error = ERROR_POOL_TIMED_OUT
                        /\ conn' = conn
                /\ req[r].st = "executing" =>
                        /\ last'.result.error \notin PoolErrors
                        /\ conn[req[r].conn] = "out"
                        /\ conn'[req[r].conn] = Returned]_vars

C15_Witness ==
    /\ poolState = "open"
    /\ Cardinality(Running("fetch_all")) = MaxConn
    /\ last.called /\ last.op = "fetch_all"
    /\ last.result.error = ERROR_POOL_TIMED_OUT
    /\ cbCount[last.req] = 1

\* Who has connection c checked out: pooled-connection handles, pool-routed
\* requests that are running, transactions begun on the pool.
CnHolders(c) == {h \in Req : cn[h].state = "held" /\ cn[h].conn = c}
ReqHolders(c) == {r \in Req : req[r].st = "executing" /\ req[r].conn = c}
TxHolders(c) ==
    {t \in Req : tx[t].state = "Open" /\ tx[t].viaCn = 0 /\ tx[t].conn = c}
HolderCount(c) ==
    Cardinality(CnHolders(c)) + Cardinality(ReqHolders(c))
        + Cardinality(TxHolders(c))
RECURSIVE Sum(_, _)
Sum(f, S) ==
    IF S = {} THEN 0
    ELSE LET x == CHOOSE y \in S : TRUE IN f[x] + Sum(f, S \ {x})
\* C16: a connection is checked out by at most one holder at a time, so the
\* connection of a pooled-connection handle is used by no pool-routed
\* request, no tx_begin and no other cn_acquire from the acquire to the
\* release; a transaction begun on a handle runs on that handle's
\* connection; the holders are never more than max_connections; and the step
\* that completes cn_release gives the connection back to the pool, where it
\* is idle again while the pool is open.
C16_CnExclusive ==
    /\ [](~crashed =>
            /\ \A c \in Conns :
                /\ HolderCount(c) <= 1
                /\ HolderCount(c) = 1 <=> conn[c] = "out"
            /\ Sum([c \in Conns |-> HolderCount(c)], Conns) <= MaxConn
            /\ \A h \in Req : cn[h].state = "held" => cn[h].conn \in Conns
            /\ \A t \in Req :
                (tx[t].state = "Open" /\ tx[t].viaCn # 0) =>
                    /\ cn[tx[t].viaCn].state = "held"
                    /\ tx[t].conn = cn[tx[t].viaCn].conn)
    /\ [][\A r \in Req :
            (req[r].op = "cn_release" /\ InFlight(r) /\ ~InFlight(r)'
             /\ ~crashed' /\ req[r].arg # NULL) =>
                LET h == heap[req[r].arg].id IN
                /\ cn[h].state = "held" /\ cn'[h].state = "released"
                /\ conn[cn[h].conn] = "out"
                /\ conn'[cn[h].conn] = IF poolState = "open" THEN "idle" ELSE "closed"
                /\ last'.req = r /\ last'.result.error = OK]_vars

\* A connection released through one handle is held through another.
C16_Witness ==
    \E h1, h2 \in Req :
        /\ cn[h1].state = "released" /\ cn[h2].state = "held"
        /\ cn[h1].conn = cn[h2].conn /\ conn[cn[h2].conn] = "out"
        /\ last.op = "cn_acquire" /\ last.req = h2 /\ last.result.cn # NULL

\* C17: no cn_* operation uses a null handle as a connection, and the
\* cn_release of a null handle calls back with the OK result and leaves the
\* pool, the connections and the handles as they were.
C17_NullHandleChecked ==
    /\ [](~nullDeref)
    /\ [][\A r \in Req :
            (req[r].op = "cn_release" /\ req[r].arg = NULL
             /\ InFlight(r) /\ ~InFlight(r)' /\ ~crashed') =>
                /\ last'.req = r /\ last'.called
                /\ last'.result = Sqlx4kPostgresResult_default
                /\ UNCHANGED <<poolState, conn, heap, cn, tx>>]_vars

RecoverableCodes ==
    {ERROR_DATABASE, ERROR_POOL_TIMED_OUT, ERROR_POOL_CLOSED, ERROR_WORKER_CRASHED}
\* C18: while initialization waits for the connect the caller is held and
\* there is no pool; the pool appears only in the step in which
\* initialization returns; and what it returns is either OK with a registry
\* handle that is not null, the pool open and the caller free to submit
\* requests, or a recoverable error code with a message, a null registry
\* handle and no pool. It never returns OK with a null registry handle.
C18_OfResult ==
    /\ [](callerPc = "in_of" =>
            /\ poolState = "none"
            /\ ~ENABLED (\E r \in Req : Call(r)))
    /\ [][(poolState = "none" /\ poolState' # "none") =>
            (callerPc = "in_of" /\ callerPc' = "ready")]_vars
    /\ [][(callerPc = "in_of" /\ callerPc' # "in_of" /\ ~crashed') =>
            /\ last'.op = "of"
            /\ \/ /\ last'.result.error = OK
                  /\ last'.result.rt # NULL
                  /\ poolState' = "open"
                  /\ callerPc' = "ready"
                  /\ \A c \in Conns : conn'[c] = "idle"
               \/ /\ last'.result.error \in RecoverableCodes
                  /\ last'.err.kind \in Recoverable
                  /\ ~IsNull(last'.result.error_message)
                  /\ last'.result.rt = NULL
                  /\ poolState' = "none"]_vars

\* Initialization returned OK with a handle and the caller has submitted a
\* request since.
C18_Witness ==
    /\ last.op = "of" /\ last.result.error = OK /\ last.result.rt # NULL
    /\ poolState = "open"
    /\ \E r \in Req : req[r].st = "scheduled"

CloseInFlight(r) == req[r].op = "close" /\ InFlight(r)
CloseCalledBack(r) ==
    /\ last.req = r /\ last.op = "close" /\ last.called
    /\ last.result = Sqlx4kPostgresResult_default
\* A connection is checked out through a handle the caller holds.
HeldByCaller ==
    \E c \in Conns : conn[c] = "out" /\ (CnHolders(c) # {} \/ TxHolders(c) # {})

\* C19, as stated: once close is submitted its callback is eventually
\* invoked with the OK result, whatever handles the caller holds.
C19_CloseCompletes ==
    \A r \in Req : CloseInFlight(r) ~> CloseCalledBack(r)

\* C19, amended: the close callback is invoked only with the OK result and
\* only when the pool is closed and every connection is closed; and once
\* close is submitted the callback is eventually invoked or the process has
\* terminated, provided the caller does not keep a connection checked out
\* through a handle for ever.
C19_CloseCompletesOnceReturned ==
    /\ []((last.called /\ last.op = "close") =>
            /\ last.result = Sqlx4kPostgresResult_default
            /\ poolState = "closed"
            /\ \A c \in Conns : conn[c] = "closed")
    /\ \A r \in Req :
        (<>[](~HeldByCaller)) =>
            (CloseInFlight(r) ~> (CloseCalledBack(r) \/ crashed))

\* The callback of a close (request 2) that was submitted while the handle
\* of request 1 was checked out and that completed after its release
\* (request 3).
C19_Witness ==
    /\ CloseCalledBack(2)
    /\ cn[1].state = "released"
    /\ nextReq = 4
    /\ poolState = "closed"

\* C20: the ready callback of a listen call is invoked at most once, after
\* every channel named in the call has been subscribed and before any call
\* of the notify callback; the calls of the notify callback are the results
\* of the inbound notifications, one each, in arrival order; every listen
\* call gets its ready callback and every inbound notification its notify
\* callback, unless the process has terminated on a fatal driver error.
C20_ListenDelivery ==
    /\ [](/\ listener.ready <= 1
          /\ listener.ready = 1 =>
                (listener.subscribed = listener.channels /\ listener.channels # {})
          /\ Len(notified) > 0 => listener.ready = 1
          /\ Len(notified) <= Len(inbound)
          /\ \A k \in 1 .. Len(notified) :
                notified[k] =
                    [id |-> listener.id,
                     result |-> sqlx4k_postgresql_result_of_pg_notification(inbound[k])])
    /\ (listener.st = "spawned") ~>
            (listener.ready = 1 \/ (crashed /\ last.err.kind \in Fatal))
    /\ \A k \in 1 .. MaxNotes :
        (Len(inbound) >= k) ~>
            (Len(notified) >= k \/ (crashed /\ last.err.kind \in Fatal))

\* The channel name and the payload a notification result carries.
ChannelOf(result) == result.schema[1].columns[1][1].name[1]
PayloadOf(result) == result.rows[1][1].columns[1][1].value[1]

RECURSIVE IsSubSeq(_, _)
IsSubSeq(s, t) ==
    IF s = <<>> THEN TRUE
    ELSE IF t = <<>> THEN FALSE
    ELSE IF Head(s) = Head(t) THEN IsSubSeq(Tail(s), Tail(t))
    ELSE IsSubSeq(s, Tail(t))

\* What was published on the channels named in the listen call.
OnChannels(chs) == SelectSeq(published, LAMBDA item : item.channel \in chs)

\* C21: every call of the notify callback carries the notify id of the
\* listen call, the channel name and the payload of a notification that was
\* published on a channel named in the call, in the order of publication,
\* and none is made for a publish on another channel; every notification
\* received on a subscribed channel is handed to the notify callback, by the
\* next step of the loop.
C21_NotifySubscribedOnly ==
    /\ [](/\ \A k \in 1 .. Len(notified) :
                /\ notified[k].id = listener.id
                /\ ChannelOf(notified[k].result) \in listener.channels
          /\ IsSubSeq([k \in 1 .. Len(notified) |->
                        [channel |-> ChannelOf(notified[k].result),
                         payload |-> PayloadOf(notified[k].result)]],
                      OnChannels(listener.channels))
          /\ (~crashed /\ Len(notified) < Len(inbound)) =>
                ENABLED Listen_try_recv)
    /\ [][(Len(notified) < Len(inbound) /\ Listen_try_recv) =>
            Len(notified') = Len(notified) + 1]_vars
    /\ \A k \in 1 .. MaxNotes : (Len(inbound) >= k) ~> (Len(notified) >= k)

\* Published on c2 and then p1 on c1 while only c1 is subscribed: the
\* notify callback was called once, for p1 on c1.
C21_Witness ==
    /\ listener.channels = {"c1"}
    /\ Len(published) = 2
    /\ published[1].channel = "c2"
    /\ published[2] = [channel |-> "c1", payload |-> "p1"]
    /\ Len(notified) = 1
    /\ ChannelOf(notified[1].result) = "c1"
    /\ PayloadOf(notified[1].result) = "p1"

\* C22: once the loop of the listen task runs it never ends (the process
\* does not terminate in it), the notify callback never gets an error result,
\* a lost connection is followed by a reconnect, and what is received after
\* it is handed to the notify callback.
C22_ReconnectResumes ==
    /\ [][listener.st = "ready" => ~crashed']_vars
    /\ [](\A k \in 1 .. Len(notified) : notified[k].result.error = OK)
    /\ (listener.st = "ready" /\ ~listener.up) ~> listener.up
    /\ \A k \in 1 .. MaxNotes :
        (listener.st = "ready" /\ Len(inbound) >= k) ~> (Len(notified) >= k)

\* C23: the result built for a notification is an OK result without message
\* of size 1, whose one row has one column at ordinal 0 with the payload as
\* its value; the channel name is the name of the one schema column, of
\* type TEXT and ordinal 0, in the schema variant, and the name of the
\* column itself, of type tag TEXT and with the payload's length, in the
\* typed variant.
C23_NotificationShape ==
    (given # Null /\ given[1].op = "notify") =>
        /\ built # Null
        /\ LET res == built[1]
               item == given[1].item
           IN  /\ res.error = OK
               /\ IsNull(res.error_message)
               /\ res.size = 1
               /\ ~IsNull(res.rows)
               /\ Len(res.rows[1]) = 1
               /\ res.rows[1][1].size = 1
               /\ ~IsNull(res.rows[1][1].columns)
               /\ Len(res.rows[1][1].columns[1]) = 1
               /\ LET col == res.rows[1][1].columns[1][1] IN
                  /\ col.ordinal = 0
                  /\ col.value = Ptr(item.payload)
                  /\ IF given[1].variant = "typed"
                     THEN /\ col.name = Ptr(item.channel)
                          /\ col.kind = TYPE_TEXT
                          /\ col.size = Len(item.payload)
                     ELSE /\ ~IsNull(res.schema)
                          /\ res.schema[1].size = 1
                          /\ ~IsNull(res.schema[1].columns)
                          /\ res.schema[1].columns[1] =
                                <<[ordinal |-> 0, name |-> Ptr(item.channel),
                                   kind |-> Ptr("TEXT")]>>

\* The notification p1 on c1 was translated by the schema variant.
C23_Witness ==
    /\ given = Ptr(Given("notify", ExecOk(0), [channel |-> "c1", payload |-> "p1"]))
    /\ built # Null
    /\ freeing = "leaked"

\* C24: however often initialization is called, the process has one
\* scheduler, made by the first call; every call that connects returns a
\* registry handle no earlier call returned, for a pool of its own, and
\* leaves the pools of the earlier handles as they are; the caller can send
\* a request through every handle it was given, and a request through a
\* handle whose pool was not closed is not refused as closed.
C24_ReentrantInit ==
    /\ [](/\ registry.runtimes <= 1
          /\ (runtime \/ registry.pools # <<>>) => registry.runtimes = 1
          /\ (~crashed /\ callerPc = "ready" /\ nextReq <= MaxReq) =>
                \A h \in Handles : ENABLED sqlx4k_postgresql_query_rt(nextReq, h))
    /\ [][/\ registry'.runtimes >= registry.runtimes
          /\ (registry.runtimes = 1) => (registry'.runtimes = 1)
          /\ (Len(registry'.pools) # Len(registry.pools)) =>
                /\ Len(registry'.pools) = Len(registry.pools) + 1
                /\ last'.op = "of" /\ last'.result.error = OK
                /\ last'.result.rt = Len(registry'.pools)
                /\ last'.result.rt \notin Handles
                /\ registry'.pools[last'.result.rt] = "open"
                /\ \A h \in Handles : registry'.pools[h] = registry.pools[h]
          /\ \A r \in Req :
                (CalledBack(r) /\ req[r].op = "query"
                    /\ registry.pools[req[r].target] = "open") =>
                        last'.result.error # ERROR_POOL_CLOSED]_vars

\* After the second initialization a query through the first handle was
\* answered with an OK result.
C24_Witness ==
    /\ registry.runtimes = 1
    /\ registry.pools = <<"open", "open">>
    /\ last.op = "query" /\ last.target = 1 /\ last.called
    /\ last.result.error = OK
    /\ nextReq = 2

\* C25: the text a task runs is the text the caller's buffer held when the
\* entry point was called, whatever the caller has written into the buffer
\* since and whether or not it has released it; what the caller does with
\* the buffer changes neither the text the task holds nor anything else of
\* the bridge.
C25_SqlCopied ==
    /\ [](\A r \in Req :
            /\ req[r].st # "new" => sql[r].owned = sql[r].passed
            /\ sql[r].ran \in {<<>>, sql[r].passed})
    /\ [][\A r \in Req :
            (req[r].st # "new" /\ sql'[r].buffer # sql[r].buffer) =>
                /\ sql'[r].owned = sql[r].owned
                /\ sql'[r].ran = sql[r].ran
                /\ UNCHANGED <<req, cbCount, last, crashed>>]_vars

\* The task ran the text passed with the call after the caller had released
\* the buffer.
C25_Witness ==
    /\ sql[1].passed = <<"s">>
    /\ sql[1].buffer = Freed
    /\ sql[1].ran = <<"s">>
    /\ cbCount[1] = 1
    /\ last.req = 1 /\ last.called

PoolOps == {"query", "fetch_all"}
\* The task of the pool-routed request r takes its connection.
Acquires(r) ==
    Sqlx4kPostgreSql_query_acquire(r) \/ Sqlx4kPostgreSql_fetch_all_acquire(r)
\* The task of the pool-routed request r ends with its callback.
CallsBack(r) ==
    (Sqlx4kPostgreSql_query(r) \/ Sqlx4kPostgreSql_fetch_all(r)) /\ CalledBack(r)

\* C26: of two pool-routed requests A and B in flight, A submitted first,
\* neither waits for the other: B can take a connection while A is in flight
\* whenever the pool has one idle, and once both hold their connection the
\* next callback can be A's and can be B's.
C26_Unordered ==
    \A a, b \in Req :
        (/\ a < b /\ ~crashed
         /\ req[a].op \in PoolOps /\ req[b].op \in PoolOps
         /\ InFlight(a) /\ InFlight(b)) =>
            /\ (req[b].st = "scheduled" /\ poolState = "open" /\ IdleConns # {}) =>
                    ENABLED Acquires(b)
            /\ (req[a].st = "executing" /\ req[b].st = "executing") =>
                    (ENABLED CallsBack(a) /\ ENABLED CallsBack(b))

\* B's callback has been made and A, submitted before it, is still running.
C26_Witness ==
    /\ req[1].op \in PoolOps /\ req[1].st = "executing" /\ cbCount[1] = 0
    /\ last.req = 2 /\ last.op \in PoolOps /\ last.called /\ cbCount[2] = 1

\* A's callback has been made and B, submitted after it, is still running.
C26_InOrder ==
    /\ req[2].op \in PoolOps /\ req[2].st = "executing" /\ cbCount[2] = 0
    /\ last.req = 1 /\ last.op \in PoolOps /\ last.called /\ cbCount[1] = 1

\* C27: the value marshaler of the typed variant gives each of the 18 type
\* names a tag of its own in 0..17 and, for a value in text format, the
\* number of bytes of its text with the text itself; for any other type
\* name and for any value in binary format it panics and there is no column.
C27_ValueTags ==
    /\ \A n \in SupportedTypes : TypeTag(n) \in 0 .. 17
    /\ \A n1, n2 \in SupportedTypes : TypeTag(n1) = TypeTag(n2) => n1 = n2
    /\ Cardinality(SupportedTypes) = 18
    /\ (given # Null /\ given[1].op = "value") =>
        LET v == given[1].item IN
        /\ (v.name \in SupportedTypes /\ v.format = "Text" /\ ~IsNull(v.text)) =>
            /\ built # Null
            /\ built[1].kind = TypeTag(v.name)
            /\ built[1].value = v.text
            /\ built[1].size =
                    Cardinality({i \in 1 .. Len(v.text[1]) : v.text[1][i] = "a"})
                    + 2 * Cardinality({i \in 1 .. Len(v.text[1]) : v.text[1][i] = "U+00E9"})
        /\ (v.name \notin SupportedTypes \/ v.format = "Binary") =>
            (built = Null /\ freeing = "panicked")

\* A JSONB value of two characters and three bytes was marshaled.
C27_Witness ==
    /\ given # Null /\ given[1].op = "value"
    /\ given[1].item = [name |-> "JSONB", format |-> "Text",
                        text |-> Ptr(<<"a", "U+00E9">>)]
    /\ built = Ptr([kind |-> 17, size |-> 3, value |-> Ptr(<<"a", "U+00E9">>)])

\* C28: when the statement of a tx_query or tx_fetch_all fails with a
\* recoverable driver error, the callback gets a result with the error code,
\* a message and a non-null transaction handle; until the caller uses that
\* handle the transaction is Open and boxed at it, and the caller can use it
\* for a further statement, a commit or a rollback.
C28_StatementFailureKeepsTx ==
    /\ []((last.op \in TxStatementOps /\ last.err.kind \in Recoverable) =>
              /\ last.called /\ ~last.panicked /\ ~crashed
              /\ last.result.error = CodeOf(last.err.kind)
              /\ ~IsNull(last.result.error_message)
              /\ last.result.tx # NULL
              /\ last.result.tx \in Addr
              /\ (callerTx[last.target] = last.result.tx) =>
                  /\ heap[last.result.tx] = [kind |-> "tx", id |-> last.target]
                  /\ tx[last.target].state = "Open"
                  /\ (callerPc = "ready" /\ nextReq <= MaxReq) =>
                      /\ ENABLED sqlx4k_postgresql_tx_query(nextReq, last.target)
                      /\ ENABLED sqlx4k_postgresql_tx_fetch_all(nextReq, last.target)
                      /\ ENABLED sqlx4k_postgresql_tx_commit(nextReq, last.target)
                      /\ ENABLED sqlx4k_postgresql_tx_rollback(nextReq, last.target))
    /\ [][\A r \in Req :
            (CalledBack(r) /\ req[r].op \in TxStatementOps
                /\ last'.err.kind \in Recoverable) =>
                    callerTx'[req[r].target] = last'.result.tx]_vars

TxOps == TxStatementOps \cup TxClosingOps
\* The boxes that hold transaction t, and the tasks that have taken it out
\* of its box.
BoxesOf(t) == {a \in Addr : heap[a] = [kind |-> "tx", id |-> t]}
TasksHolding(t) ==
    {r \in Req : req[r].st = "executing" /\ req[r].op \in TxOps /\ req[r].held = t}

\* C29: with a caller that makes one call at a time on a transaction and
\* passes the handle of the previous result, every handle passed to a tx_*
\* call is, when its task takes it, the one box that holds that open
\* transaction; a transaction is never in two boxes, nor in a box and in a
\* task, nor in two tasks; and a box is emptied only by the task that was
\* passed its address.
C29_NoDoubleReclaim ==
    /\ [](/\ \A r \in Req :
                (~crashed /\ req[r].st = "scheduled" /\ req[r].op \in TxOps) =>
                    /\ req[r].arg \in Addr
                    /\ heap[req[r].arg] = [kind |-> "tx", id |-> req[r].target]
                    /\ tx[req[r].target].state = "Open"
          /\ \A t \in Req :
                /\ Cardinality(BoxesOf(t)) + Cardinality(TasksHolding(t)) <= 1
                /\ Cardinality({r \in Req : InFlight(r) /\ req[r].op \in TxOps
                                               /\ req[r].target = t}) <= 1
                /\ tx[t].state # "Open" => (BoxesOf(t) = {} /\ TasksHolding(t) = {}))
    /\ [][\A a \in Addr :
            (heap[a].kind = "tx" /\ heap'[a] # heap[a] /\ ~crashed') =>
                \E r \in Req :
                    /\ req[r].st = "scheduled" /\ req[r].arg = a
                    /\ req'[r].st = "executing" /\ req'[r].held = heap[a].id]_vars

\* Two transactions are open, each in its box, and a statement has run in
\* the first through the handle of its tx_begin.
C29_Witness ==
    /\ tx[1].state = "Open" /\ tx[2].state = "Open"
    /\ last.called /\ last.op \in TxStatementOps /\ last.target = 1
    /\ BoxesOf(1) = {last.result.tx} /\ BoxesOf(2) # {}
    /\ callerTx[1] = last.result.tx

\* The step of free_result on a result the caller holds.
FreesHeld == freeing' # freeing \/ last'.op = "free_result"

\* The result carries a registry, pooled-connection or transaction handle.
CarriesHandle(res) == res.rt # NULL \/ res.cn # NULL \/ res.tx # NULL

\* C30: free_result releases only the result tree.  Freeing a result that
\* carries a registry, pooled-connection or transaction handle leaves the
\* process running and the runtime, the pool, its connections, the boxes
\* behind the handles, the transactions and the handles of the caller as
\* they were; right after, a transaction whose handle the caller read from
\* the freed result takes a further statement, a commit and a rollback, and
\* a pooled connection read from it takes a further statement and a release.
C30_FreeKeepsHandles ==
    /\ [][(FreesHeld /\ CarriesHandle(last.result)) =>
              /\ ~crashed'
              /\ freeing' = "freed"
              /\ UNCHANGED <<runtime, poolState, conn, heap, tx, cn,
                             callerTx, callerCn, req, dbApplied>>]_vars
    /\ []((freeing = "freed" /\ ~crashed /\ last.result = built[1]
                /\ callerPc = "ready" /\ nextReq <= MaxReq) =>
              /\ \A t \in Req :
                    (built[1].tx # NULL /\ callerTx[t] = built[1].tx) =>
                        /\ heap[built[1].tx] = [kind |-> "tx", id |-> t]
                        /\ ENABLED sqlx4k_postgresql_tx_query(nextReq, t)
                        /\ ENABLED sqlx4k_postgresql_tx_fetch_all(nextReq, t)
                        /\ ENABLED sqlx4k_postgresql_tx_commit(nextReq, t)
                        /\ ENABLED sqlx4k_postgresql_tx_rollback(nextReq, t)
              /\ \A c \in Req :
                    (built[1].cn # NULL /\ callerCn[c] = built[1].cn /\ CnReady(c)) =>
                        /\ heap[built[1].cn] = [kind |-> "cn", id |-> c]
                        /\ ENABLED sqlx4k_postgresql_cn_query(nextReq, c)
                        /\ ENABLED sqlx4k_postgresql_cn_release(nextReq, c)
              /\ (built[1].rt # NULL /\ poolState = "open") =>
                        ENABLED sqlx4k_postgresql_query(nextReq))

\* None of the three handle fields of the result is set.
NoHandle(res) == res.rt = NULL /\ res.cn = NULL /\ res.tx = NULL

IssuingOps == {"of", "cn_acquire", "tx_begin", "cn_tx_begin", "tx_query", "tx_fetch_all"}

\* C31: the handle fields of a result are set only by the operation that
\* issues that kind of handle. The registry handle is non-null exactly in
\* the OK result of initialization, the pooled-connection handle exactly in
\* the OK result of cn_acquire, the transaction handle exactly in the OK
\* results of tx_begin and cn_tx_begin and in every result of tx_query and
\* tx_fetch_all, and a result has at most one of them; the result of every
\* other operation, the result passed to the ready callback of listen and
\* the result built for any notification have all three null.
C31_HandlesByIssuer ==
    /\ ((last.called \/ last.op = "of") /\ ~last.panicked) =>
          LET res == last.result IN
          /\ res.rt # NULL <=> (last.op = "of" /\ res.error = OK)
          /\ res.cn # NULL <=> (last.op = "cn_acquire" /\ res.error = OK)
          /\ res.tx # NULL <=>
                \/ last.op \in {"tx_begin", "cn_tx_begin"} /\ res.error = OK
                \/ last.op \in TxStatementOps
          /\ last.op \notin IssuingOps => NoHandle(res)
          /\ Cardinality({f \in {"rt", "cn", "tx"} : res[f] # NULL}) <= 1
    /\ \A item \in Notifications :
          NoHandle(sqlx4k_postgresql_result_of_pg_notification(item))
    /\ \A k \in 1 .. Len(notified) : NoHandle(notified[k].result)

\* A commit that failed with a recoverable error has just been delivered,
\* without a handle, while the caller holds a pooled connection.
C31_Witness ==
    /\ last.called /\ last.op = "tx_commit" /\ last.result.error = ERROR_DATABASE
    /\ NoHandle(last.result)
    /\ \E c \in Req : callerCn[c] # NULL

\* The pooled connection c is held: acquired and not yet released.
Held(c) == cn[c].state = "held"

\* The callback of request r fires in this step, for operation op.
Fires(r, ops) == CalledBack(r) /\ req[r].op \in ops /\ ~crashed'

\* C32: a pooled-connection handle stays the same and valid across cn_query,
\* cn_fetch_all and cn_tx_begin: when such a call completes, the caller's
\* handle, the box behind it and the connection it holds are what they were
\* and the connection is still checked out. A transaction begun with
\* cn_tx_begin(c) runs on the connection of c. Committing or rolling back
\* such a transaction leaves the connection checked out and the handle
\* valid. A connection held through a handle leaves the checked-out state
\* only in the step in which cn_release of that handle completes.
C32_CnHandleStable ==
    /\ [](\A c \in Req : Held(c) =>
              /\ conn[cn[c].conn] = "out"
              /\ \E a \in Addr : heap[a] = [kind |-> "cn", id |-> c])
    /\ [][\A r \in Req :
            Fires(r, {"cn_query", "cn_fetch_all", "cn_tx_begin"}) =>
                LET c == req[r].target IN
                /\ Held(c)
                /\ callerCn'[c] = callerCn[c]
                /\ callerCn[c] = req[r].arg
                /\ heap'[req[r].arg] = [kind |-> "cn", id |-> c]
                /\ cn'[c] = cn[c]
                /\ conn' = conn]_vars
    /\ [][\A r \in Req :
            (Fires(r, {"cn_tx_begin"}) /\ last'.result.error = OK) =>
                /\ tx'[r].state = "Open"
                /\ tx'[r].viaCn = req[r].target
                /\ tx'[r].conn = cn[req[r].target].conn]_vars
    /\ [][\A r \in Req :
            (Fires(r, TxClosingOps) /\ tx[req[r].target].viaCn # 0) =>
                LET c == tx[req[r].target].viaCn IN
                /\ tx'[req[r].target].state = "Closed"
                /\ Held(c) /\ cn'[c] = cn[c]
                /\ tx[req[r].target].conn = cn[c].conn
                /\ conn' = conn
                /\ callerCn'[c] = callerCn[c] /\ callerCn[c] # NULL
                /\ heap'[callerCn[c]] = [kind |-> "cn", id |-> c]]_vars
    /\ [][\A c \in Req :
            (Held(c) /\ ~crashed' /\ (conn'[cn[c].conn] # "out" \/ ~Held(c)')) =>
                \E r \in Req :
                    /\ Fires(r, {"cn_release"}) /\ req[r].target = c
                    /\ conn'[cn[c].conn] = Returned]_vars

\* On the pooled connection 1 a transaction was begun and committed, the
\* connection stayed checked out, and a further statement on the handle has
\* just completed.
C32_Witness ==
    /\ Held(1) /\ callerCn[1] # NULL /\ conn[cn[1].conn] = "out"
    /\ tx[2].viaCn = 1 /\ tx[2].state = "Closed" /\ tx[2].closedBy = "commit"
    /\ last.called /\ last.op = "cn_query" /\ last.target = 1
    /\ last.result.error = OK

\* No request is in flight and no handle is outstanding: every acquired
\* connection was released and every begun transaction committed or rolled
\* back.
NothingOutstanding ==
    /\ Quiet
    /\ \A c \in Req : ~Held(c)
    /\ \A t \in Req : tx[t].state # "Open"

\* C33: whenever no request is in flight and no handle is outstanding, no
\* connection of the pool is checked out: the idle count equals the pool
\* size. This holds after any sequence of operations, failed statements,
\* failed commits and rollbacks and timed-out acquisitions included.
C33_NoLeakedConnection ==
    NothingOutstanding =>
        /\ OutConns = {}
        /\ sqlx4k_postgresql_pool_idle_size = sqlx4k_postgresql_pool_size

\* A commit has just failed, an earlier request ended in an error too,
\* nothing is outstanding and both connections of the open pool are idle.
C33_Witness ==
    /\ NothingOutstanding /\ ~crashed /\ poolState = "open"
    /\ last.called /\ last.op = "tx_commit" /\ last.err.kind = "Database"
    /\ \E t \in Req : tx[t].state = "Closed" /\ ~tx[t].closedOk /\ tx[t].failed
    /\ sqlx4k_postgresql_pool_idle_size = MaxConn

\* The pool is closed and so is every connection it had: the state the close
\* callback is made in.
PoolShut == poolState = "closed" /\ \A c \in Conns : conn[c] = "closed"

PoolRoutedOps == {"query", "fetch_all", "tx_begin", "cn_acquire"}

\* C34: the close callback fires with the pool closed and every connection
\* closed, and the pool stays so. From then on every query, fetch_all,
\* tx_begin and cn_acquire completes through its callback, once, with error
\* POOL_CLOSED (2) and a message, carries no handle and leaves connections,
\* boxes, transactions and pooled connections as they were; a further close
\* completes through its callback with the OK result; and each such request
\* in flight does eventually complete.
C34_AfterClose ==
    /\ [][\A r \in Req : Fires(r, {"close"}) => PoolShut']_vars
    /\ [][(PoolShut /\ ~crashed') => PoolShut']_vars
    /\ [][\A r \in Req :
            (PoolShut /\ req[r].op \in PoolRoutedOps /\ InFlight(r)
                      /\ req'[r] # req[r]) =>
                /\ ~crashed'
                /\ cbCount'[r] = cbCount[r] + 1 /\ cbCount[r] = 0
                /\ last'.req = r /\ last'.called
                /\ last'.result.error = ERROR_POOL_CLOSED
                /\ ~IsNull(last'.result.error_message)
                /\ NoHandle(last'.result)
                /\ callerTx'[r] = NULL /\ callerCn'[r] = NULL
                /\ UNCHANGED <<conn, heap, tx, cn, poolState>>]_vars
    /\ [][\A r \in Req :
            (PoolShut /\ Fires(r, {"close"})) =>
                /\ last'.result = Sqlx4kPostgresResult_default
                /\ cbCount[r] = 0]_vars
    /\ \A r \in Req :
            (PoolShut /\ InFlight(r) /\ req[r].op \in PoolRoutedOps \cup {"close"})
                ~> (cbCount[r] = 1 /\ ~InFlight(r))

\* The pool was closed and the close callback has fired; a tx_begin has
\* since completed with POOL_CLOSED and without a transaction handle.
C34_Witness ==
    /\ PoolShut /\ Quiet /\ ~crashed
    /\ last.called /\ last.op = "tx_begin"
    /\ last.result.error = ERROR_POOL_CLOSED /\ last.result.tx = NULL
    /\ callerTx[last.req] = NULL

\* The listen call followed is one of the canonical variant, whose listener
\* has a pool of its own, or of an earlier variant, whose listener is made on
\* the main pool.
CanonicalListen == listener.st \notin {"none", "called"} /\ listener.main = 0
EarlierListen == listener.st = "called" \/ listener.main # 0

\* A step of the listen task or of its delivery.
ListenStep == listener' # listener \/ notified' # notified

\* C35: in the canonical variant a listen subscription never holds a
\* connection of the main pool. No step of its listen task changes the main
\* pool or its connections; every checked-out connection is held by a
\* request, a pooled-connection handle or a transaction, so a pool-routed
\* request times out only when requests and handles hold every connection;
\* closing the main pool leaves the listener as it is, a close that found
\* nothing checked out can complete, and a notification that has arrived is
\* still delivered. In the earlier variants the step that attaches the
\* listener checks one more connection of the main pool out, and that
\* connection stays checked out, held by no request or handle, for as long
\* as the process runs.
C35_ListenerOffMainPool ==
    /\ [][(ListenStep /\ ~EarlierListen' /\ ~crashed') =>
            UNCHANGED <<poolState, conn, req, cn, tx, heap, callerCn, callerTx>>]_vars
    /\ []((~crashed /\ ~EarlierListen) =>
            \A c \in Conns : conn[c] = "out" <=> HolderCount(c) = 1)
    /\ [][\A r \in Req :
            (Fires(r, {"query", "cn_acquire"}) /\ ~EarlierListen
             /\ last'.result.error = ERROR_POOL_TIMED_OUT) =>
                \A c \in Conns : HolderCount(c) = 1]_vars
    /\ [][(CanonicalListen /\ poolState' # poolState /\ ~crashed') =>
            listener' = listener /\ inbound' = inbound /\ notified' = notified]_vars
    /\ []((CanonicalListen /\ ~crashed) =>
            /\ ~ENABLED Listen_try_recv_closed
            /\ (listener.st = "ready" /\ Len(notified) < Len(inbound)) =>
                    ENABLED Listen_try_recv
            /\ \A r \in Req :
                (Executing(r, "close") /\ \A c \in Conns : HolderCount(c) = 0) =>
                    ENABLED Sqlx4kPostgreSql_close(r))
    /\ [][(listener.main = 0 /\ listener'.main # 0) =>
            /\ conn[listener'.main] = "idle" /\ conn'[listener'.main] = "out"
            /\ Cardinality(OutConns') = Cardinality(OutConns) + 1]_vars
    /\ [][(listener.main # 0 /\ ~crashed') => listener'.main = listener.main]_vars
    /\ []((listener.main # 0 /\ ~crashed) =>
            /\ conn[listener.main] = "out"
            /\ HolderCount(listener.main) = 0)

\* The main pool was closed and its close callback has fired while a
\* canonical listener is ready, with a notification that arrived and is
\* about to be delivered.
C35_Witness ==
    /\ CanonicalListen /\ listener.st = "ready" /\ ~crashed
    /\ PoolShut /\ last.called /\ last.op = "close"
    /\ Len(notified) < Len(inbound)

\* An earlier-variant listener holds one of the two connections, a pooled
\* connection handle the other, and a query has just timed out.
C35_EarlierStarves ==
    /\ listener.main # 0 /\ ~crashed
    /\ \E c \in Req : Held(c)
    /\ last.called /\ last.op = "query" /\ last.result.error = ERROR_POOL_TIMED_OUT

\* C36: when several threads are inside initialization while RUNTIME is
\* still empty, the scheduler that is installed first stays the one
\* installed, and the check-then-set on RUNTIME makes no call abort: no
\* thread panics on RUNTIME.set.
C36_ConcurrentInit ==
    /\ [][inits.slot # 0 => inits'.slot = inits.slot]_vars
    /\ [](~(last.panicked /\ last.op = "RUNTIME.set"))

\* The ids on the free list, and the ids a commit or rollback task has taken
\* out of the slot table and not yet pushed back.
FreeIds == {tx_id[k] : k \in 1 .. Len(tx_id)}
ClosingIds ==
    {req[r].arg : r \in {q \in Req : req[q].op \in TxClosingOps
                                      /\ req[q].st \in {"executing", "pushing"}}}

\* C37: in the slot-table variant, under every interleaving of tx_begin,
\* tx_commit and tx_rollback tasks of callers that follow the protocol, a
\* tx_begin that obtained its connection never finds the free list empty
\* and never finds the slot of the id it pops occupied; no id is twice on
\* the free list, and none is both on the list and in use; no two open
\* transactions share a slot; and when no request is in flight and no
\* transaction is open, every id is back on the free list.
C37_SlotIds ==
    /\ [][\A r \in Req :
            (Executing(r, "tx_begin") /\ req'[r] # req[r]) =>
                IF crashed'
                THEN last'.req = r => last'.err # NoErr
                ELSE /\ tx_id # <<>>
                     /\ slots[PopId] = 0
                     /\ slots'[PopId] = r
                     /\ last'.result.tx = PopId]_vars
    /\ []((~crashed /\ poolState # "none") =>
            /\ Cardinality(FreeIds) = Len(tx_id)
            /\ \A i \in FreeIds : slots[i] = 0 /\ i \notin ClosingIds
            /\ \A i, j \in Ids : (slots[i] # 0 /\ slots[i] = slots[j]) => i = j
            /\ ((\A q \in Req : req[q].st \in {"new", "done"})
                    /\ \A t \in Req : tx[t].state # "Open") =>
                        FreeIds = {AllIds[k] : k \in 1 .. MaxConn})

\* C38: in the slot-table variant, a tx_commit, tx_rollback, tx_query or
\* tx_fetch_all task that finds the slot of its id empty (the id was never
\* given out, or its transaction has been committed or rolled back and the
\* id not given out again) panics in that step: it makes no driver call,
\* commits and rolls back nothing, invokes no callback, and does not go on
\* with a transaction taken from the slot.
C38_EmptySlotFatal ==
    [][\A r \in Req :
        (/\ ~crashed /\ req[r].st = "scheduled" /\ req[r].op \in SlotTxOps
         /\ slots[req[r].arg] = 0
         /\ \/ req'[r].st = "executing"
            \/ crashed' /\ last'.req = r) =>
                /\ crashed' /\ last'.panicked /\ ~last'.called
                /\ last'.op = req[r].op /\ last'.arg = req[r].arg
                /\ last'.err = NoErr /\ last'.n = 0
                /\ dbApplied' = dbApplied
                /\ cbCount' = cbCount
                /\ \A q \in Req : req'[q].st # "executing"]_vars

\* The first transaction ran a statement and was committed on id 1, every
\* callback came, and a second commit of id 1 has panicked.
C38_Witness ==
    /\ crashed /\ last.panicked /\ last.op = "tx_commit" /\ last.err = NoErr
    /\ last.req = 4 /\ last.arg = 1 /\ dbApplied[1] > 0
    /\ \A q \in 1 .. 3 : cbCount[q] = 1
====
